---- MODULE Spec2Model ----
(***************************************************************************)
(* UnrealityTV: the detection strategy orchestrator, the interval merge it *)
(* uses and the TTL result cache, modelled from                            *)
(*   src/src/unrealitytv/detectors/orchestrator.py                         *)
(*   src/src/unrealitytv/detectors/cache.py                                *)
(*   src/src/unrealitytv/cache.py                                          *)
(***************************************************************************)
EXTENDS Integers, Sequences, FiniteSets, TLC

(***************************************************************************)
(* Bounds of the model                                                     *)
(***************************************************************************)
\* time grid of the merge inputs: ticks 0..MaxTick
MaxTick == 4
\* total number of scenes in the two merge inputs
MaxScenes == 3
\* scene_index values carried by the merge inputs: 0..MaxIndex
MaxIndex == 1
\* time grid of the detector outputs of one detect call: ticks 0..MaxOrchTick
MaxOrchTick == 2
\* number of scenes one detector reports in a detect call
MaxOrchScenes == 3
\* the cache clock runs over 0..MaxTime (seconds)
MaxTime == 2
\* ttl values, of the store and of single entries, lie in 0..MaxTtl (seconds)
MaxTtl == 2
\* max_cache_size_mb of the store is 1 or MaxStoreMb
MaxStoreMb == 2
\* a cached payload is a list of 1..MaxPayload scene dicts
MaxPayload == 2
\* the threshold argument of a detect call is one of 1..MaxThreshold
MaxThreshold == 2
\* number of (timestamp_ms, phash) tuples handed to the duplicate search
MaxSources == 2
\* number of rows the fingerprint store returns for one query
MaxCandidates == 2
\* number of matches handed to the grouping step
MaxDuplicates == 3

(***************************************************************************)
(* Program constants                                                       *)
(***************************************************************************)
\* orchestrator.py:328  "scene.start_ms <= last.end_ms + 100"
ADJACENCY_MS == 100

(***************************************************************************)
(* Helpers                                                                 *)
(***************************************************************************)
Max(a, b) == IF a >= b THEN a ELSE b

\* The time in ms of tick k: 0, 100, 200, 201, 301, 401, ...  so that pairs of
\* ticks lie exactly 100 ms apart (200-100, 301-201) and 101 ms apart
\* (201-100, 301-200).
TimeOf(k) == IF k < 3 THEN 100 * k ELSE 100 * (k - 1) + 1

\* models.py SceneBoundary: start_ms, end_ms, scene_index
SceneBoundary(s, e, i) == [start_ms |-> s, end_ms |-> e, scene_index |-> i]

\* Intervals [start, end) with end > start over the ticks 0..maxTick.
Scenes(maxTick, maxIndex) ==
    { SceneBoundary(TimeOf(a), TimeOf(b), i) :
        <<a, b, i>> \in { t \in (0..maxTick) \X (0..maxTick) \X (0..maxIndex) : t[1] < t[2] } }

(***************************************************************************)
(* DetectionOrchestrator._merge_scene_lists (orchestrator.py:297-339)      *)
(* Scene objects are mutable and shared between the input lists and the    *)
(* result: an object is a position of the heap scenes1 \o scenes2.         *)
(***************************************************************************)
\* key=lambda s: (s.start_ms, s.end_ms), compared as tuples
SortKeyLess(a, b) ==
    \/ a.start_ms < b.start_ms
    \/ a.start_ms = b.start_ms /\ a.end_ms < b.end_ms

\* one step of the stable sort: id goes after every element whose key is not
\* greater than its own
RECURSIVE InsertSorted(_, _, _)
InsertSorted(ids, id, heap) ==
    IF ids = <<>> THEN <<id>>
    ELSE IF SortKeyLess(heap[id], heap[Head(ids)])
         THEN <<id>> \o ids
         ELSE <<Head(ids)>> \o InsertSorted(Tail(ids), id, heap)

\* sorted(scenes1 + scenes2, key=...): the object ids in sorted order (stable)
RECURSIVE SortedIds(_, _)
SortedIds(heap, n) ==
    IF n = 0 THEN <<>>
    ELSE InsertSorted(SortedIds(heap, n - 1), n, heap)

\* the for loop of lines 322-333 from the k-th sorted scene on; merged is the
\* list of object ids, heap the objects' fields (last.end_ms is assigned in
\* place)
RECURSIVE Sweep(_, _, _, _)
Sweep(all_scenes, k, merged, heap) ==
    IF k > Len(all_scenes) THEN [merged |-> merged, heap |-> heap]
    ELSE LET scene == all_scenes[k] IN
         IF merged = <<>>
         THEN Sweep(all_scenes, k + 1, <<scene>>, heap)
         ELSE LET last == merged[Len(merged)] IN
              IF heap[scene].start_ms <= heap[last].end_ms + ADJACENCY_MS
              THEN Sweep(all_scenes, k + 1, merged,
                         [heap EXCEPT ![last].end_ms =
                              Max(heap[last].end_ms, heap[scene].end_ms)])
              ELSE Sweep(all_scenes, k + 1, Append(merged, scene), heap)

\* lines 336-337: for i, scene in enumerate(merged): scene.scene_index = i
Reindex(merged, heap) ==
    [id \in DOMAIN heap |->
        IF \E j \in 1..Len(merged) : merged[j] = id
        THEN [heap[id] EXCEPT !.scene_index =
                  (CHOOSE j \in 1..Len(merged) : merged[j] = id) - 1]
        ELSE heap[id]]

\* lines 316-339 on non-empty inputs: the ids of the result and the heap after
MergeRun(scenes1, scenes2) ==
    LET heap0 == scenes1 \o scenes2
        sw == Sweep(SortedIds(heap0, Len(heap0)), 1, <<>>, heap0)
    IN  [merged |-> sw.merged, heap |-> Reindex(sw.merged, sw.heap)]

\* a plausible slip: the early return for an empty second list hands back the
\* (empty) second list
MergeSceneLists_ReturnsSecond(scenes1, scenes2) ==
    IF scenes2 = <<>> THEN scenes2
    ELSE IF scenes1 = <<>> THEN scenes2
    ELSE LET r == MergeRun(scenes1, scenes2)
         IN  [j \in 1..Len(r.merged) |-> r.heap[r.merged[j]]]

\* _merge_scene_lists(scenes1, scenes2): the returned list, by value
MergeSceneLists(scenes1, scenes2) ==
    IF scenes2 = <<>> THEN scenes1
    ELSE IF scenes1 = <<>> THEN scenes2
    ELSE LET r == MergeRun(scenes1, scenes2)
         IN  [j \in 1..Len(r.merged) |-> r.heap[r.merged[j]]]

\* what the caller holds after _merge_scene_lists(scenes1, scenes2) returned:
\* the scenes of its two lists as they are now (the lists themselves are never
\* assigned to: line 318 concatenates into a new list), and which list object
\* came back: scenes1 (line 312), scenes2 (line 314) or the new list merged
MergeEffects(scenes1, scenes2) ==
    IF scenes2 = <<>>
    THEN [scenes1 |-> scenes1, scenes2 |-> scenes2, returned |-> "scenes1"]
    ELSE IF scenes1 = <<>>
    THEN [scenes1 |-> scenes1, scenes2 |-> scenes2, returned |-> "scenes2"]
    ELSE LET r == MergeRun(scenes1, scenes2)
         IN  [scenes1 |-> [i \in 1..Len(scenes1) |-> r.heap[i]],
              scenes2 |-> [i \in 1..Len(scenes2) |-> r.heap[Len(scenes1) + i]],
              returned |-> "new"]

(***************************************************************************)
(* Detector adapters (collaborators) as the orchestrator sees them         *)
(***************************************************************************)
\* a detector returned a list of scenes
Ok(scenes) == [kind |-> "ok", scenes |-> scenes, msg |-> ""]
\* a detector (or the orchestrator) raised an exception of class kind
Raise(kind, msg) == [kind |-> kind, scenes |-> <<>>, msg |-> msg]
\* the collaborator is not reached in this call
Unused == [kind |-> "unused", scenes |-> <<>>, msg |-> ""]

\* transnetv2_detector.py:49-52: RuntimeError("transnetv2 library is not
\* installed. ...") when the import of transnetv2 failed
NotInstalled == Raise("RuntimeError", "transnetv2 library is not installed")
\* scene_detector.py:91-94, transnetv2_detector.py:162-165: every other
\* failure is re-raised as RuntimeError("Error detecting scenes ...")
Failed == Raise("RuntimeError", "Error detecting scenes")
\* silence_detector.py:41-44, credits_detector.py:42-45
NotFound == Raise("FileNotFoundError", "Video file does not exist")

\* what a detector run on one video reports: scenes in ascending order that do
\* not overlap, indexed by enumerate (scene_detector.py:73-83)
RECURSIVE SeqsUpTo(_, _)
SeqsUpTo(S, n) ==
    IF n = 0 THEN { <<>> }
    ELSE LET shorter == SeqsUpTo(S, n - 1)
         IN  shorter \cup { Append(q, x) : <<q, x>> \in
                              { qx \in shorter \X S : Len(qx[1]) = n - 1 } }

DetectorOutputs ==
    { l \in SeqsUpTo(Scenes(MaxOrchTick, 0), MaxOrchScenes) :
        \A i \in 1..(Len(l) - 1) : l[i].end_ms <= l[i + 1].start_ms }

Enumerated(l) == [i \in 1..Len(l) |-> [l[i] EXCEPT !.scene_index = i - 1]]

OkOutcomes == { Ok(Enumerated(l)) : l \in DetectorOutputs }

\* number of runs of detector name recorded in log
Runs(log, name) == Cardinality({ i \in 1..Len(log) : log[i] = name })

(***************************************************************************)
(* DetectionOrchestrator (orchestrator.py)                                 *)
(* Every _detect_with_* takes the collaborators' behaviour env and the log *)
(* of detector runs so far, and yields [out, log]: out is Ok(scenes) or    *)
(* the exception that leaves the method.                                   *)
(***************************************************************************)
\* _detect_with_scene_detect, lines 71-91: errors are logged and re-raised.
\* env.scene_detect[n] is the behaviour of the n-th run of PySceneDetect.
DetectWithSceneDetect(env, log) ==
    [out |-> env.scene_detect[Runs(log, "scene_detect") + 1],
     log |-> Append(log, "scene_detect")]

\* a plausible slip: the fallback to PySceneDetect is taken for no RuntimeError
\* (the message test never matches), so every RuntimeError is re-raised
DetectWithTransnetv2_NoFallback(env, log) ==
    [out |-> env.transnetv2, log |-> Append(log, "transnetv2")]

\* _detect_with_transnetv2, lines 93-115
DetectWithTransnetv2(env, log) ==
    LET o == env.transnetv2
        log1 == Append(log, "transnetv2")
    IN  IF o.kind = "RuntimeError" /\ o.msg = "transnetv2 library is not installed"
        THEN DetectWithSceneDetect(env, log1)
        ELSE [out |-> o, log |-> log1]

\* _detect_with_silence, lines 146-166
DetectWithSilence(env, log) ==
    [out |-> env.silence, log |-> Append(log, "silence")]

\* _detect_with_credits, lines 168-188
DetectWithCredits(env, log) ==
    [out |-> env.credits, log |-> Append(log, "credits")]

\* the locals of a call that no branch assigns
NoLocals == [scene_detect_scenes |-> <<>>, transnetv2_scenes |-> <<>>, results |-> <<>>]

\* the outcome of a single-detector branch
Single(r) == [out |-> r.out, log |-> r.log, locals |-> NoLocals]

\* _detect_with_hybrid, lines 117-144
DetectWithHybrid(env, log) ==
    LET sd == DetectWithSceneDetect(env, log) IN
    IF sd.out.kind # "ok" THEN Single(sd)
    ELSE LET tn == DetectWithTransnetv2(env, sd.log) IN
         IF tn.out.kind \notin {"ok", "RuntimeError"} THEN Single(tn)
         ELSE LET transnetv2_scenes ==
                      IF tn.out.kind = "ok" THEN tn.out.scenes ELSE <<>>
              IN  [out |-> Ok(MergeSceneLists(sd.out.scenes, transnetv2_scenes)),
                   log |-> tn.log,
                   locals |-> [scene_detect_scenes |-> sd.out.scenes,
                               transnetv2_scenes |-> transnetv2_scenes,
                               results |-> <<>>]]

\* _detect_with_hybrid_extended, lines 190-235
DetectWithHybridExtended(env, log) ==
    LET sd == DetectWithSceneDetect(env, log) IN
    IF sd.out.kind # "ok" THEN Single(sd)
    ELSE
    LET results1 == sd.out.scenes
        tn == DetectWithTransnetv2(env, sd.log)
    IN
    IF tn.out.kind \notin {"ok", "RuntimeError"} THEN Single(tn)
    ELSE
    LET results2 == IF tn.out.kind = "ok" THEN results1 \o tn.out.scenes ELSE results1
        si == DetectWithSilence(env, tn.log)
        results3 == IF si.out.kind = "ok" THEN results2 \o si.out.scenes ELSE results2
        cr == DetectWithCredits(env, si.log)
        results == IF cr.out.kind = "ok" THEN results3 \o cr.out.scenes ELSE results3
    IN  [out |-> Ok(IF results # <<>> THEN MergeSceneLists(results, <<>>) ELSE <<>>),
         log |-> cr.log,
         locals |-> [scene_detect_scenes |-> sd.out.scenes,
                     transnetv2_scenes |-> IF tn.out.kind = "ok" THEN tn.out.scenes ELSE <<>>,
                     results |-> results]]

\* a plausible slip: the probe's answer is not looked at and the accelerator
\* path is always taken
DetectWithAutoSelect_IgnoresProbe(env, log) ==
    Single(DetectWithTransnetv2(env, Append(log, "torch.cuda")))

\* _detect_with_auto_select, lines 237-253: env.cuda is "available",
\* "unavailable" (torch.cuda.is_available() is False) or "no_torch"
\* (ImportError); the probe is recorded in the log as "torch.cuda"
DetectWithAutoSelect(env, log) ==
    LET log1 == Append(log, "torch.cuda") IN
    IF env.cuda = "available"
    THEN Single(DetectWithTransnetv2(env, log1))
    ELSE Single(DetectWithSceneDetect(env, log1))

\* _detect_with_visual_duplicates, lines 255-295: an ImportError becomes a
\* RuntimeError, every other exception is re-raised
DetectWithVisualDuplicates(env, log) ==
    [out |-> IF env.visual_duplicates.kind = "ImportError"
             THEN Raise("RuntimeError", "Visual duplicate detection requires imagehash and Pillow")
             ELSE env.visual_duplicates,
     log |-> Append(log, "visual_duplicates"),
     locals |-> NoLocals]

\* the values of self.method the dispatch knows (lines 50-65)
KnownMethods == {"scene_detect", "transnetv2", "hybrid", "silence", "credits",
                 "visual_duplicates", "hybrid_extended", "auto"}

\* a plausible slip: a method the table does not know is treated as "auto"
DetectScenes_DefaultsToAuto(m, env) ==
    IF m = "scene_detect" THEN Single(DetectWithSceneDetect(env, <<>>))
    ELSE IF m = "transnetv2" THEN Single(DetectWithTransnetv2(env, <<>>))
    ELSE IF m = "hybrid" THEN DetectWithHybrid(env, <<>>)
    ELSE IF m = "silence" THEN Single(DetectWithSilence(env, <<>>))
    ELSE IF m = "credits" THEN Single(DetectWithCredits(env, <<>>))
    ELSE IF m = "visual_duplicates" THEN DetectWithVisualDuplicates(env, <<>>)
    ELSE IF m = "hybrid_extended" THEN DetectWithHybridExtended(env, <<>>)
    ELSE DetectWithAutoSelect(env, <<>>)

\* detect_scenes, lines 35-69
DetectScenes(m, env) ==
    IF m = "scene_detect" THEN Single(DetectWithSceneDetect(env, <<>>))
    ELSE IF m = "transnetv2" THEN Single(DetectWithTransnetv2(env, <<>>))
    ELSE IF m = "hybrid" THEN DetectWithHybrid(env, <<>>)
    ELSE IF m = "silence" THEN Single(DetectWithSilence(env, <<>>))
    ELSE IF m = "credits" THEN Single(DetectWithCredits(env, <<>>))
    ELSE IF m = "visual_duplicates" THEN DetectWithVisualDuplicates(env, <<>>)
    ELSE IF m = "hybrid_extended" THEN DetectWithHybridExtended(env, <<>>)
    ELSE IF m = "auto" THEN DetectWithAutoSelect(env, <<>>)
    ELSE [out |-> Raise("ValueError", "Unknown detection method"),
          log |-> <<>>, locals |-> NoLocals]

(***************************************************************************)
(* CacheManager (cache.py)                                                 *)
(* The cache directory is a function from file names to entries; time is   *)
(* time.time() in whole seconds.                                           *)
(***************************************************************************)
\* Optional[int]
None == [some |-> FALSE, v |-> 0]
Some(t) == [some |-> TRUE, v |-> t]

\* no file of that name in cache_dir
NoFile == [exists |-> FALSE, value |-> <<>>, timestamp |-> 0, ttl |-> 0]

\* the data dict written by set, lines 147-151
Entry(value, timestamp, ttl) ==
    [exists |-> TRUE, value |-> value, timestamp |-> timestamp, ttl |-> ttl]

\* the characters of the keys that are neither letters nor digits; every
\* other element of a key is a letter, a digit or a run of them
Punctuation == {"/", "_", "-", ".", ":", " "}

\* str.isalnum() on the elements the keys are made of
IsAlnum(c) == c \notin Punctuation

\* one character of safe_key, line 90
SafeChar(c) == IF IsAlnum(c) \/ c \in {"-", "_"} THEN c ELSE "_"

\* _get_cache_file, lines 80-91: the name of the file of key, without the
\* directory and the ".json" suffix
GetCacheFile(key) == [i \in 1..Len(key) |-> SafeChar(key[i])]

\* a get that returns None / a get that returns data["value"]
Miss == [hit |-> FALSE, value |-> <<>>]
Hit(value) == [hit |-> TRUE, value |-> value]

\* a plausible slip: the age is compared with >=, an entry expires one second
\* early
CacheGet_ExpiresEarly(config, files, now, key) ==
    LET cache_file == GetCacheFile(key) IN
    IF ~config.enabled THEN [result |-> Miss, files |-> files]
    ELSE IF ~files[cache_file].exists THEN [result |-> Miss, files |-> files]
    ELSE IF now - files[cache_file].timestamp >= config.ttl_seconds
         THEN [result |-> Miss, files |-> [files EXCEPT ![cache_file] = NoFile]]
         ELSE [result |-> Hit(files[cache_file].value), files |-> files]

\* get, lines 93-127: the returned value and the directory afterwards
CacheGet(config, files, now, key) ==
    LET cache_file == GetCacheFile(key) IN
    IF ~config.enabled THEN [result |-> Miss, files |-> files]
    ELSE IF ~files[cache_file].exists THEN [result |-> Miss, files |-> files]
    ELSE LET data == files[cache_file]
             age_seconds == now - data.timestamp
         IN  IF age_seconds > config.ttl_seconds
             THEN [result |-> Miss, files |-> [files EXCEPT ![cache_file] = NoFile]]
             ELSE [result |-> Hit(data.value), files |-> files]

\* the size in MB of the JSON file holding a value, a list of dicts: it
\* grows with the length of the list
SizeMb(value) == Len(value)

\* get_cache_size, lines 221-239
RECURSIVE SumSizes(_, _)
SumSizes(files, names) ==
    IF names = {} THEN 0
    ELSE LET n == CHOOSE n \in names : TRUE
         IN  (IF files[n].exists THEN SizeMb(files[n].value) ELSE 0)
             + SumSizes(files, names \ {n})

GetCacheSize(files) == SumSizes(files, DOMAIN files)

\* a plausible slip: the sweep judges every file by the store-wide ttl, as get
\* does
CleanupExpired_ByStoreTtl(config, files, now) ==
    [n \in DOMAIN files |->
        IF files[n].exists /\ now - files[n].timestamp > config.ttl_seconds
        THEN NoFile ELSE files[n]]

\* cleanup_expired, lines 189-219: each file is judged by the ttl it records
CleanupExpired(config, files, now) ==
    [n \in DOMAIN files |->
        IF files[n].exists /\ now - files[n].timestamp > files[n].ttl
        THEN NoFile ELSE files[n]]

\* set, lines 129-164, when no write fails: the directory afterwards
CacheSet(config, files, now, key, value, ttl) ==
    IF ~config.enabled THEN files
    ELSE LET cache_file == GetCacheFile(key)
             \* ttl or self.config.ttl_seconds: None and 0 are both falsy
             data == Entry(value, now,
                           IF ttl.some /\ ttl.v # 0 THEN ttl.v ELSE config.ttl_seconds)
             written == [files EXCEPT ![cache_file] = data]
         IN  IF GetCacheSize(written) > config.max_cache_size_mb
             THEN CleanupExpired(config, written, now)
             ELSE written

\* how the file system treats one open of a call: "ok", or "fails" (the open
\* or the json call raises: no permission, disk full, a file that is not
\* JSON)
IoOutcomes == {"ok", "fails"}

\* get when the read may fail, lines 105-127: the exception is caught inside
\* get and None is returned
CacheGetIo(config, files, now, key, io) ==
    IF config.enabled /\ io = "fails"
    THEN [result |-> Miss, files |-> files]
    ELSE CacheGet(config, files, now, key)

\* set when the write may fail, lines 143-164: the exception leaves as
\* CacheError, here with no byte written
CacheSetIo(config, files, now, key, value, ttl, io) ==
    IF config.enabled /\ io = "fails"
    THEN [raised |-> TRUE, files |-> files]
    ELSE [raised |-> FALSE, files |-> CacheSet(config, files, now, key, value, ttl)]

\* delete, lines 166-177
CacheDelete(files, key) == [files EXCEPT ![GetCacheFile(key)] = NoFile]

\* clear, lines 179-187
CacheClear(files) == [n \in DOMAIN files |-> NoFile]

(***************************************************************************)
(* CachingDetectionOrchestrator (detectors/cache.py)                       *)
(***************************************************************************)
\* hashlib.md5(str(video_path).encode()).hexdigest(): a run of hex digits that
\* is a function of the path alone, different for the paths of the model
Md5(video_path) == IF video_path = "ep1.mkv" THEN "a0" ELSE "b1"

\* _make_cache_key, lines 54-67: f"detection_{file_hash}_{method}" as a
\* sequence of runs of alphanumerics and single other characters
MakeCacheKey(video_path, m) == <<"detection", "_", Md5(video_path), "_">> \o m

\* the method names as such sequences
MethodKey(m) ==
    IF m = "scene_detect" THEN <<"scene", "_", "detect">> ELSE <<m>>

\* DetectionOrchestrator.detect_scenes(self, video_path, **kwargs) called as
\* super().detect_scenes(video_path, method, **kwargs), line 107: the method
\* takes one positional argument besides self, a second one is a TypeError
\* before the body runs
ParentDetectScenes(self_method, positional, kwargs, e) ==
    IF Len(positional) > 1
    THEN [out |-> Raise("TypeError", "detect_scenes() takes 2 positional arguments but 3 were given"),
          log |-> <<>>, locals |-> NoLocals]
    ELSE DetectScenes(self_method, e)

\* CachingDetectionOrchestrator.detect_scenes, lines 69-118: what the call
\* returns or raises, the cache directory afterwards, the key it used and
\* how its read and its write of the cache went ("none": it made none).
\* io.get and io.set say how the reads and writes of the cache go.  A
\* CacheError of set is caught at line 115, and line 113 is reached only
\* after the parent call returned.
CachedDetectScenes(self_method, use, config, files, now, video_path, m, kwargs, e, io) ==
    LET cache_key == MakeCacheKey(video_path, MethodKey(m))
        got == IF use THEN CacheGetIo(config, files, now, cache_key, io.get)
                      ELSE [result |-> Miss, files |-> files]
        read == IF use THEN io.get ELSE "none"
    IN  IF use /\ got.result.hit
        THEN [out |-> Ok(got.result.value), files |-> got.files, key |-> cache_key,
              log |-> <<>>, hit |-> TRUE, io |-> [get |-> read, set |-> "none"]]
        ELSE LET r == ParentDetectScenes(self_method, <<video_path, m>>, kwargs, e) IN
             IF r.out.kind # "ok"
             THEN [out |-> r.out, files |-> got.files, key |-> cache_key,
                   log |-> r.log, hit |-> FALSE, io |-> [get |-> read, set |-> "none"]]
             ELSE [out |-> r.out,
                   files |-> IF use
                             THEN CacheSetIo(config, got.files, now, cache_key,
                                             r.out.scenes, None, io.set).files
                             ELSE got.files,
                   key |-> cache_key, log |-> r.log, hit |-> FALSE,
                   io |-> [get |-> read, set |-> IF use THEN io.set ELSE "none"]]

(***************************************************************************)
(* Hamming distance of two hex hashes (visual/hashing.py:73-93 and         *)
(* visual/duplicate_finder.py:133-148)                                     *)
(* A str is a sequence of one-character strings.  A Python int is of       *)
(* unbounded width: it is the sequence of its binary digits, most          *)
(* significant first, leading zeros allowed.                               *)
(***************************************************************************)
\* hashing.py:42  format(hash_int, "016x"): a pHash has 16 hex digits
HASH_DIGITS == 16
\* duplicate_finder.py:148  return 64  # Max distance for invalid hashes
MAX_DISTANCE == 64

LowerDigits == <<"0", "1", "2", "3", "4", "5", "6", "7", "8", "9",
                 "a", "b", "c", "d", "e", "f">>
UpperDigits == <<"0", "1", "2", "3", "4", "5", "6", "7", "8", "9",
                 "A", "B", "C", "D", "E", "F">>

\* the characters int(s, 16) reads as a digit, and their values
IsHexDigit(c) == \E i \in 1..16 : LowerDigits[i] = c \/ UpperDigits[i] = c
DigitValue(c) == (CHOOSE i \in 1..16 : LowerDigits[i] = c \/ UpperDigits[i] = c) - 1

\* the four binary digits of a hex digit
Nibble(v) == <<(v \div 8) % 2, (v \div 4) % 2, (v \div 2) % 2, v % 2>>

\* int(hash, 16) on a str of letters and digits: the int, or ValueError for
\* the empty str and for a str with a character that is no hex digit
ParseHex(hash) ==
    IF hash = <<>> \/ \E i \in 1..Len(hash) : ~IsHexDigit(hash[i])
    THEN [ok |-> FALSE, bits |-> <<>>]
    ELSE [ok |-> TRUE,
          bits |-> [k \in 1..(4 * Len(hash)) |->
                      Nibble(DigitValue(hash[((k - 1) \div 4) + 1]))[((k - 1) % 4) + 1]]]

\* the binary digit of weight 2^w of an int
BitAt(bits, w) == IF w < Len(bits) THEN bits[Len(bits) - w] ELSE 0

\* a plausible slip: | instead of ^
IntXor_AsOr(a, b) ==
    LET n == Max(Len(a), Len(b))
    IN  [k \in 1..n |-> IF BitAt(a, n - k) = 1 \/ BitAt(b, n - k) = 1 THEN 1 ELSE 0]

\* a ^ b on non-negative ints
IntXor(a, b) ==
    LET n == Max(Len(a), Len(b))
    IN  [k \in 1..n |-> (BitAt(a, n - k) + BitAt(b, n - k)) % 2]

\* bin(x): "0b" and the binary digits of x without leading zeros ("0b0" for 0)
RECURSIVE StripZeros(_)
StripZeros(bits) ==
    IF bits = <<>> THEN <<>>
    ELSE IF Head(bits) = 0 THEN StripZeros(Tail(bits)) ELSE bits

Bin(x) ==
    LET digits == StripZeros(x)
    IN  <<"0", "b">> \o (IF digits = <<>> THEN <<"0">>
                         ELSE [k \in 1..Len(digits) |->
                                 IF digits[k] = 1 THEN "1" ELSE "0"])

\* str.count("1")
CountOnes(str) == Cardinality({ k \in 1..Len(str) : str[k] = "1" })

\* the int a function returned
Returned(n) == [kind |-> "ok", value |-> n, msg |-> ""]
\* the exception a function raised
Raised(kind, msg) == [kind |-> kind, value |-> 0, msg |-> msg]

\* hashing.hamming_distance, lines 73-93: ValueError for a hash that does
\* not parse
HammingDistance(hash1, hash2) ==
    LET a == ParseHex(hash1)
        b == ParseHex(hash2)
    IN  IF a.ok /\ b.ok
        THEN Returned(CountOnes(Bin(IntXor(a.bits, b.bits))))
        ELSE Raised("ValueError", "Invalid hex hash format")

\* DuplicateFinder._hamming_distance, lines 133-148: 64 for a hash that does
\* not parse
FinderHammingDistance(hash1, hash2) ==
    LET a == ParseHex(hash1)
        b == ParseHex(hash2)
    IN  IF a.ok /\ b.ok
        THEN CountOnes(Bin(IntXor(a.bits, b.bits)))
        ELSE MAX_DISTANCE

(***************************************************************************)
(* DuplicateFinder.find_duplicates_for_hashes (duplicate_finder.py:87-131) *)
(***************************************************************************)
\* a function of the duplicate engine returned the list items
Result(items) == [kind |-> "ok", items |-> items, msg |-> ""]
\* it raised an exception of class kind
Error(kind, msg) == [kind |-> kind, items |-> <<>>, msg |-> msg]

\* DuplicateMatch, lines 14-23
DuplicateMatch(source_episode_id, source_timestamp_ms, source_phash, match_episode_id, match_timestamp_ms, match_phash, distance) ==
    [source_episode_id |-> source_episode_id,
     source_timestamp_ms |-> source_timestamp_ms,
     source_phash |-> source_phash,
     match_episode_id |-> match_episode_id,
     match_timestamp_ms |-> match_timestamp_ms,
     match_phash |-> match_phash,
     hamming_distance |-> distance]

\* sorted(matches, key=lambda x: x.source_timestamp_ms), stable: m goes after
\* every match whose timestamp is not greater than its own
RECURSIVE InsertByTimestamp(_, _)
InsertByTimestamp(sorted, m) ==
    IF sorted = <<>> THEN <<m>>
    ELSE IF m.source_timestamp_ms < Head(sorted).source_timestamp_ms
         THEN <<m>> \o sorted
         ELSE <<Head(sorted)>> \o InsertByTimestamp(Tail(sorted), m)

RECURSIVE SortByTimestamp(_)
SortByTimestamp(ms) ==
    IF ms = <<>> THEN <<>>
    ELSE InsertByTimestamp(SortByTimestamp(SubSeq(ms, 1, Len(ms) - 1)), ms[Len(ms)])

\* the inner loop, lines 110-123, over the candidates of one query from the
\* j-th on
RECURSIVE KeepWithin(_, _, _, _, _, _)
KeepWithin(threshold, episode_id, hash, candidates, j, acc) ==
    IF j > Len(candidates) THEN acc
    ELSE LET match_hash == candidates[j]
             distance == FinderHammingDistance(hash[2], match_hash.phash)
         IN  KeepWithin(threshold, episode_id, hash, candidates, j + 1,
                 IF distance <= threshold
                 THEN Append(acc, DuplicateMatch(episode_id, hash[1], hash[2],
                                    match_hash.episode_id, match_hash.timestamp_ms,
                                    match_hash.phash, distance))
                 ELSE acc)

\* the outer loop, lines 108-123, from the i-th hash on: answers[i] is what
\* repo.find_similar_hashes(phash, exclude_episode_id=episode_id) does on the
\* i-th query; queries is the list of the queries issued
RECURSIVE FinderLoop(_, _, _, _, _, _, _)
FinderLoop(threshold, episode_id, hashes, answers, i, acc, queries) ==
    IF i > Len(hashes) THEN [out |-> Result(SortByTimestamp(acc)), queries |-> queries]
    ELSE LET query == [phash |-> hashes[i][2], exclude_episode_id |-> episode_id,
                       answer |-> answers[i]]
         IN  IF answers[i].kind = "RepositoryError"
             THEN [out |-> answers[i], queries |-> Append(queries, query)]
             ELSE IF answers[i].kind # "ok"
             THEN [out |-> Error("RepositoryError", "Failed to find duplicates for episode"),
                   queries |-> Append(queries, query)]
             ELSE FinderLoop(threshold, episode_id, hashes, answers, i + 1,
                             KeepWithin(threshold, episode_id, hashes[i],
                                        answers[i].items, 1, acc),
                             Append(queries, query))

\* a plausible slip: < instead of <= in the threshold test
FindDuplicatesForHashes_Below(threshold, episode_id, hashes, answers) ==
    FinderLoop(threshold - 1, episode_id, hashes, answers, 1, <<>>, <<>>)

\* find_duplicates_for_hashes, lines 87-131
FindDuplicatesForHashes(threshold, episode_id, hashes, answers) ==
    FinderLoop(threshold, episode_id, hashes, answers, 1, <<>>, <<>>)

(***************************************************************************)
(* _group_duplicates_into_segments and _create_segment_from_group          *)
(* (detectors/visual_duplicate_detector.py:114-189)                        *)
(***************************************************************************)
\* visual_duplicate_detector.py:171  "+ 1000  # Add 1 second for last frame"
SAMPLE_WINDOW_MS == 1000

\* SkipSegment, models.py:32-45.  confidence is a fraction <<p, q>> = p / q;
\* reason carries the number of frames and the fraction avg_distance it is
\* formatted from
SkipSegment(start_ms, end_ms, confidence, reason) ==
    [start_ms |-> start_ms, end_ms |-> end_ms, segment_type |-> "flashback",
     confidence |-> confidence, reason |-> reason]

\* what _create_segment_from_group gives: a segment, None, or the
\* ValidationError of SkipSegment's end_after_start (models.py:47-53)
NoneSegment == [kind |-> "none", segment |-> SkipSegment(0, 0, <<0, 1>>, <<0, 0, 1>>)]
SomeSegment(seg) == [kind |-> "segment", segment |-> seg]
InvalidSegment == [kind |-> "ValidationError", segment |-> SkipSegment(0, 0, <<0, 1>>, <<0, 0, 1>>)]

\* sum(m.hamming_distance for m in group)
RECURSIVE SumDistances(_)
SumDistances(group) ==
    IF group = <<>> THEN 0
    ELSE Head(group).hamming_distance + SumDistances(Tail(group))

\* a plausible slip: the minimum duration is not applied
CreateSegmentFromGroup_NoMinimum(group, min_duration) ==
    IF group = <<>> THEN NoneSegment
    ELSE LET start_ms == group[1].source_timestamp_ms
             end_ms == group[Len(group)].source_timestamp_ms + SAMPLE_WINDOW_MS
             total == SumDistances(group)
             q == MAX_DISTANCE * Len(group)
         IN  IF end_ms <= start_ms THEN InvalidSegment
             ELSE SomeSegment(SkipSegment(start_ms, end_ms,
                                  <<Max(0, q - total), q>>,
                                  <<Len(group), total, Len(group)>>))

\* _create_segment_from_group, lines 155-189
CreateSegmentFromGroup(group, min_duration) ==
    IF group = <<>> THEN NoneSegment
    ELSE LET start_ms == group[1].source_timestamp_ms
             end_ms == group[Len(group)].source_timestamp_ms + SAMPLE_WINDOW_MS
             duration_ms == end_ms - start_ms
             \* avg_distance = total / len(group);
             \* confidence = max(0.0, min(1.0, 1.0 - avg_distance / 64))
             total == SumDistances(group)
             q == MAX_DISTANCE * Len(group)
         IN  IF duration_ms < min_duration THEN NoneSegment
             ELSE IF end_ms <= start_ms THEN InvalidSegment
             ELSE SomeSegment(SkipSegment(start_ms, end_ms,
                                  <<Max(0, q - total), q>>,
                                  <<Len(group), total, Len(group)>>))

\* the matches at the positions of a group
MatchesAt(duplicates, positions) ==
    [k \in 1..Len(positions) |-> duplicates[positions[k]]]

\* lines 142-145 and 148-150: the group is closed; out is the list returned
\* so far, kept the groups that became its segments
CloseGroup(duplicates, min_duration, current_group, out, kept) ==
    LET segment == CreateSegmentFromGroup(MatchesAt(duplicates, current_group), min_duration)
    IN  IF segment.kind = "ValidationError"
        THEN [out |-> Error("ValidationError", "end_ms must be greater than start_ms"),
              groups |-> kept]
        ELSE IF segment.kind = "segment"
        THEN [out |-> Result(Append(out.items, segment.segment)),
              groups |-> Append(kept, current_group)]
        ELSE [out |-> out, groups |-> kept]

\* a plausible slip: the gap is measured on match_timestamp_ms
RECURSIVE GroupLoop_MatchTimestamp(_, _, _, _, _, _, _)
GroupLoop_MatchTimestamp(duplicates, min_duration, gap_tolerance, i, current_group, out, kept) ==
    IF i > Len(duplicates)
    THEN CloseGroup(duplicates, min_duration, current_group, out, kept)
    ELSE IF duplicates[i].match_timestamp_ms - duplicates[i - 1].match_timestamp_ms
                <= gap_tolerance
    THEN GroupLoop_MatchTimestamp(duplicates, min_duration, gap_tolerance, i + 1,
                                  Append(current_group, i), out, kept)
    ELSE LET closed == CloseGroup(duplicates, min_duration, current_group, out, kept)
         IN  IF closed.out.kind # "ok" THEN closed
             ELSE GroupLoop_MatchTimestamp(duplicates, min_duration, gap_tolerance, i + 1,
                                           <<i>>, closed.out, closed.groups)

\* a plausible slip: < instead of <= in the gap test, so that matches exactly
\* gap_tolerance apart are split
RECURSIVE GroupLoop_StrictGap(_, _, _, _, _, _, _)
GroupLoop_StrictGap(duplicates, min_duration, gap_tolerance, i, current_group, out, kept) ==
    IF i > Len(duplicates)
    THEN CloseGroup(duplicates, min_duration, current_group, out, kept)
    ELSE IF duplicates[i].source_timestamp_ms - duplicates[i - 1].source_timestamp_ms
                < gap_tolerance
    THEN GroupLoop_StrictGap(duplicates, min_duration, gap_tolerance, i + 1,
                             Append(current_group, i), out, kept)
    ELSE LET closed == CloseGroup(duplicates, min_duration, current_group, out, kept)
         IN  IF closed.out.kind # "ok" THEN closed
             ELSE GroupLoop_StrictGap(duplicates, min_duration, gap_tolerance, i + 1,
                                      <<i>>, closed.out, closed.groups)

\* the for loop of lines 133-145 from position i on and the final group of
\* lines 147-150
RECURSIVE GroupLoop(_, _, _, _, _, _, _)
GroupLoop(duplicates, min_duration, gap_tolerance, i, current_group, out, kept) ==
    IF i > Len(duplicates)
    THEN CloseGroup(duplicates, min_duration, current_group, out, kept)
    ELSE IF duplicates[i].source_timestamp_ms - duplicates[i - 1].source_timestamp_ms
                <= gap_tolerance
    THEN GroupLoop(duplicates, min_duration, gap_tolerance, i + 1,
                   Append(current_group, i), out, kept)
    ELSE LET closed == CloseGroup(duplicates, min_duration, current_group, out, kept)
         IN  IF closed.out.kind # "ok" THEN closed
             ELSE GroupLoop(duplicates, min_duration, gap_tolerance, i + 1,
                            <<i>>, closed.out, closed.groups)

\* a plausible slip: the group still open when the loop ends is forgotten
RECURSIVE LoopOnly(_, _, _, _, _, _, _)
LoopOnly(duplicates, min_duration, gap_tolerance, i, current_group, out, kept) ==
    IF i > Len(duplicates) THEN [out |-> out, groups |-> kept]
    ELSE IF duplicates[i].source_timestamp_ms - duplicates[i - 1].source_timestamp_ms
                <= gap_tolerance
    THEN LoopOnly(duplicates, min_duration, gap_tolerance, i + 1,
                  Append(current_group, i), out, kept)
    ELSE LET closed == CloseGroup(duplicates, min_duration, current_group, out, kept)
         IN  IF closed.out.kind # "ok" THEN closed
             ELSE LoopOnly(duplicates, min_duration, gap_tolerance, i + 1,
                           <<i>>, closed.out, closed.groups)

GroupDuplicatesIntoSegments_NoFinalGroup(duplicates, min_duration, gap_tolerance) ==
    IF duplicates = <<>> THEN [out |-> Result(<<>>), groups |-> <<>>]
    ELSE LoopOnly(duplicates, min_duration, gap_tolerance, 2, <<1>>, Result(<<>>), <<>>)

\* _group_duplicates_into_segments, lines 114-152
GroupDuplicatesIntoSegments(duplicates, min_duration, gap_tolerance) ==
    IF duplicates = <<>> THEN [out |-> Result(<<>>), groups |-> <<>>]
    ELSE GroupLoop(duplicates, min_duration, gap_tolerance, 2, <<1>>, Result(<<>>), <<>>)

(***************************************************************************)
(* detect_visual_duplicates (detectors/visual_duplicate_detector.py:18-111) *)
(***************************************************************************)
\* the calls on the FrameHashRepository of one detection, as the store sees
\* them
AddHashesBatch(episode_id, hashes) ==
    [call |-> "add_hashes_batch", episode_id |-> episode_id, hashes |-> hashes]

FindSimilarHashes(phash, exclude_episode_id) ==
    [call |-> "find_similar_hashes", phash |-> phash,
     exclude_episode_id |-> exclude_episode_id]

\* the store calls of the finder, from the queries it issued
RECURSIVE QueryCalls(_)
QueryCalls(queries) ==
    IF queries = <<>> THEN <<>>
    ELSE <<FindSimilarHashes(queries[1].phash, queries[1].exclude_episode_id)>>
             \o QueryCalls(Tail(queries))

\* lines 90-104: find the duplicates (a failure gives none) and group them
FindAndGroup(episode_id, hashes, answers, threshold, min_duration, gap_tolerance) ==
    LET found == FindDuplicatesForHashes(threshold, episode_id, hashes, answers)
        duplicates == IF found.out.kind = "ok" THEN found.out.items ELSE <<>>
        grouped == GroupDuplicatesIntoSegments(duplicates, min_duration, gap_tolerance)
    IN  [out |-> grouped.out, groups |-> grouped.groups, duplicates |-> duplicates,
         found |-> found.out, queries |-> found.queries,
         calls |-> QueryCalls(found.queries)]

\* a plausible slip: the duplicates are looked for before the hashes are
\* stored
FindStoreGroup(episode_id, hashes, answers, threshold, min_duration, gap_tolerance) ==
    LET r == FindAndGroup(episode_id, hashes, answers, threshold, min_duration,
                          gap_tolerance)
    IN  [r EXCEPT !.calls = r.calls \o <<AddHashesBatch(episode_id, hashes)>>]

\* lines 79-104: store the hashes (a failure of the store is logged and the
\* call goes on), then find and group
StoreFindGroup(episode_id, hashes, answers, threshold, min_duration, gap_tolerance) ==
    LET r == FindAndGroup(episode_id, hashes, answers, threshold, min_duration,
                          gap_tolerance)
    IN  [r EXCEPT !.calls = <<AddHashesBatch(episode_id, hashes)>> \o r.calls]

\* detect_visual_duplicates, lines 18-111.  video says whether the file
\* exists and whether extract_frames works on it ("missing" | "unreadable" |
\* "ok"); hashes is what compute_hashes_batch gives for the frames, empty
\* also when no frame was extracted; db is whether a Database was passed;
\* answers are the store's answers to the queries
DetectVisualDuplicates(video, db, episode_id, hashes, answers, threshold, min_duration, gap_tolerance) ==
    LET nothing == [out |-> Result(<<>>), groups |-> <<>>, duplicates |-> <<>>,
                    found |-> Result(<<>>), queries |-> <<>>, calls |-> <<>>]
    IN  IF video = "missing"
        THEN [nothing EXCEPT !.out = Error("FileNotFoundError", "Video file not found")]
        ELSE IF ~db \/ episode_id = 0 THEN nothing
        ELSE IF video = "unreadable"
        THEN [nothing EXCEPT !.out = Error("FrameExtractionError", "Frame extraction failed")]
        ELSE IF hashes = <<>> THEN nothing
        ELSE StoreFindGroup(episode_id, hashes, answers, threshold, min_duration,
                            gap_tolerance)

(***************************************************************************)
(* State                                                                   *)
(***************************************************************************)
VARIABLES
    \* --- merge harness: a caller of _merge_scene_lists
    scenes1,    \* first argument
    scenes2,    \* second argument
    merged,     \* the list returned by _merge_scene_lists(scenes1, scenes2)
    remerged,   \* the list returned by _merge_scene_lists(merged, [])
    after1,     \* the scenes of the first argument after the call
    after2,     \* the scenes of the second argument after the call
    returned,   \* the list object the call returned: "scenes1" | "scenes2" | "new"
    mpc,        \* "input" | "merged" | "remerged"
    \* --- one DetectionOrchestrator and one detect_scenes call on it
    method,     \* self.method
    env,        \* how the collaborators behave during the call
    opc,        \* "idle" before the call | "done" after it
    ret,        \* Ok(returned list) or the exception raised to the caller
    log,        \* the detector runs of the call, in order
    locals,     \* scene_detect_scenes, transnetv2_scenes, results of the call
    \* --- one CacheManager, its directory and its callers
    config,     \* CacheConfig: enabled, ttl_seconds, max_cache_size_mb
    files,      \* the *.json files of cache_dir: file name -> entry
    now,        \* time.time()
    cres,       \* the last cache operation, what it returned, for a get
                \* whether it found no file (absent) or a file older than the
                \* ttl recorded in it (expired), and for a set its ttl argument
    expect,     \* per key: the last set of the key no later set, delete or
                \* clear has touched (history, for the properties)
    \* --- one CachingDetectionOrchestrator on that CacheManager
    use_cache,  \* self.use_cache
    calls,      \* the last detect_scenes call: arguments, collaborators,
                \* outcome, detector runs and what a get of its key gives
                \* afterwards; before it, the arguments and key of the call
                \* that preceded it (history)
    \* --- a caller of the two hamming distance functions
    hash1,      \* a hash
    hash2,      \* another hash
    hd,         \* what hashing.hamming_distance gave on (hash1, hash2),
                \* (hash2, hash1), (hash1, hash1) and (hash2, hash2)
    fd,         \* the same for DuplicateFinder._hamming_distance
    \* --- one DuplicateFinder and one find_duplicates_for_hashes call on it
    hamming_threshold,  \* self.hamming_threshold
    hashes,     \* the argument hashes: (timestamp_ms, phash) tuples
    similar,    \* what repo.find_similar_hashes answered, query by query
    matches,    \* the returned list of DuplicateMatch, or the exception
    fpc,        \* "input" | "done"
    \* --- a caller of _group_duplicates_into_segments
    duplicates,         \* the argument duplicates
    min_duration_ms,    \* the argument min_duration_ms
    gap_tolerance_ms,   \* the argument gap_tolerance_ms
    segments,   \* the returned list of SkipSegment, or the exception
    groups,     \* the groups of the call that became segments: their
                \* positions in duplicates (history)
    gpc,        \* "input" | "done"
    \* --- two threads, each in one call on the same cache directory
    threads,    \* per thread: the call, the line it is at and its locals
    unreadable, \* the files of cache_dir whose bytes are not a JSON document
    finished,   \* the threads whose call is over, in the order they finished
    \* --- a caller of detect_visual_duplicates; the frame hashes, the
    \* settings and the results are hashes, hamming_threshold,
    \* min_duration_ms, gap_tolerance_ms, matches and segments above
    episode,    \* the arguments db (passed or not) and episode_id
    repo_calls  \* the calls of the detection on the FrameHashRepository, in order

mergeVars == <<scenes1, scenes2, merged, remerged, after1, after2, returned, mpc>>
orchVars == <<method, env, opc, ret, log, locals>>
cacheVars == <<config, files, now, cres, expect>>
detVars == <<use_cache, calls>>
raceVars == <<threads, unreadable, finished>>
dupVars == <<episode, repo_calls>>
hashVars == <<hash1, hash2, hd, fd>>
finderVars == <<hamming_threshold, hashes, similar, matches, fpc>>
groupVars == <<duplicates, min_duration_ms, gap_tolerance_ms, segments, groups, gpc>>
visualVars == <<hashVars, finderVars, groupVars>>
vars == <<mergeVars, orchVars, cacheVars, detVars, raceVars, dupVars, visualVars>>

(***************************************************************************)
(* Merge harness                                                           *)
(***************************************************************************)
\* no merge requested yet
MergeIdle ==
    /\ scenes1 = <<>>
    /\ scenes2 = <<>>
    /\ merged = <<>>
    /\ remerged = <<>>
    /\ after1 = <<>>
    /\ after2 = <<>>
    /\ returned = "none"
    /\ mpc = "input"

\* the collaborators' behaviour before any is chosen
NoEnv ==
    [scene_detect |-> <<Unused, Unused>>, transnetv2 |-> Unused,
     silence |-> Unused, credits |-> Unused, visual_duplicates |-> Unused,
     cuda |-> "unused"]

\* an orchestrator constructed with method m, no call made
OrchIdle(m) ==
    /\ method = m
    /\ env = NoEnv
    /\ opc = "idle"
    /\ ret = Unused
    /\ log = <<>>
    /\ locals = NoLocals

\* nothing asked of a key yet
NoExpect == [live |-> FALSE, value |-> <<>>, at |-> 0, ttl |-> 0]

\* no cache operation yet
NoCres == [op |-> "none", key |-> <<>>, result |-> Miss, absent |-> FALSE,
           expired |-> FALSE, ttl |-> None]

\* a CacheManager constructed with config c on an empty directory in which
\* the callers' keys select the files of names
CacheIdle(c, keys) ==
    /\ config = c
    /\ files = [n \in { GetCacheFile(k) : k \in keys } |-> NoFile]
    /\ now = 0
    /\ cres = NoCres
    /\ expect = [k \in keys |-> NoExpect]

\* CacheConfig(), cache.py:32-44, with the defaults scaled to the model
DefaultConfig == [enabled |-> TRUE, ttl_seconds |-> MaxTtl, max_cache_size_mb |-> MaxStoreMb]

\* a CachingDetectionOrchestrator constructed with use_cache u, no call made
DetIdle(u) ==
    /\ use_cache = u
    /\ calls = <<>>

\* the threads of the callers
Threads == {1, 2}

\* a thread that has not called yet: op is the call ("get", "set" or
\* "detect"), pc the line it is at, value the payload of a set, timestamp the
\* time.time() of its data dict, data what a get loaded, unlinked whether
\* the file the set holds open has been unlinked since, result what get
\* returned, out what detect_scenes returned or raised, env the collaborators
\* of the detect call
NoThread ==
    [op |-> "none", pc |-> "idle", value |-> <<>>, timestamp |-> 0, data |-> NoFile,
     unlinked |-> FALSE, expired |-> FALSE, result |-> Miss, out |-> Unused,
     env |-> NoEnv]

\* no thread has called
RaceIdle ==
    /\ threads = [t \in Threads |-> NoThread]
    /\ unreadable = {}
    /\ finished = <<>>

\* a caller about to pass db (or None) and episode_id to
\* detect_visual_duplicates
DupIdle(db, episode_id) ==
    /\ episode = [db |-> db, id |-> episode_id]
    /\ repo_calls = <<>>

\* no distance asked for yet
NoDistances == [done |-> FALSE, ab |-> Returned(0), ba |-> Returned(0),
                aa |-> Returned(0), bb |-> Returned(0)]

\* a caller holding the hashes h1 and h2
HashIdle(h1, h2) ==
    /\ hash1 = h1
    /\ hash2 = h2
    /\ hd = NoDistances
    /\ fd = NoDistances

\* DuplicateFinder(db, hamming_threshold=t), duplicate_finder.py:29-37, no
\* call made
FinderIdle(t) ==
    /\ hamming_threshold = t
    /\ hashes = <<>>
    /\ similar = <<>>
    /\ matches = Result(<<>>)
    /\ fpc = "input"

\* a caller of the grouping step with its two settings, no call made
GroupIdle(min_duration, gap_tolerance) ==
    /\ duplicates = <<>>
    /\ min_duration_ms = min_duration
    /\ gap_tolerance_ms = gap_tolerance
    /\ segments = Result(<<>>)
    /\ groups = <<>>
    /\ gpc = "input"

\* the defaults: hamming_threshold 8 (duplicate_finder.py:29), min_duration_ms
\* 3000 and gap_tolerance_ms 2000 (visual_duplicate_detector.py:24-25)
VisualRest == HashIdle(<<>>, <<>>) /\ FinderIdle(8) /\ GroupIdle(3000, 2000)

CacheRest == CacheIdle(DefaultConfig, {}) /\ DetIdle(TRUE) /\ RaceIdle /\ DupIdle(FALSE, 0) /\ VisualRest

MergeInit == MergeIdle /\ OrchIdle("auto") /\ CacheRest

\* the caller builds the first argument
AppendScene1 ==
    /\ mpc = "input"
    /\ Len(scenes1) + Len(scenes2) < MaxScenes
    /\ \E s \in Scenes(MaxTick, MaxIndex) : scenes1' = Append(scenes1, s)
    /\ UNCHANGED <<scenes2, merged, remerged, after1, after2, returned, mpc, orchVars, cacheVars, detVars, raceVars, dupVars, visualVars>>

\* the caller builds the second argument
AppendScene2 ==
    /\ mpc = "input"
    /\ Len(scenes1) + Len(scenes2) < MaxScenes
    /\ \E s \in Scenes(MaxTick, MaxIndex) : scenes2' = Append(scenes2, s)
    /\ UNCHANGED <<scenes1, merged, remerged, after1, after2, returned, mpc, orchVars, cacheVars, detVars, raceVars, dupVars, visualVars>>

\* result = DetectionOrchestrator._merge_scene_lists(scenes1, scenes2)
Merge ==
    /\ mpc = "input"
    /\ merged' = MergeSceneLists(scenes1, scenes2)
    /\ after1' = MergeEffects(scenes1, scenes2).scenes1
    /\ after2' = MergeEffects(scenes1, scenes2).scenes2
    /\ returned' = MergeEffects(scenes1, scenes2).returned
    /\ mpc' = "merged"
    /\ UNCHANGED <<scenes1, scenes2, remerged, orchVars, cacheVars, detVars, raceVars, dupVars, visualVars>>

\* DetectionOrchestrator._merge_scene_lists(result, [])
MergeAgain ==
    /\ mpc = "merged"
    /\ remerged' = MergeSceneLists(merged, <<>>)
    /\ mpc' = "remerged"
    /\ UNCHANGED <<scenes1, scenes2, merged, after1, after2, returned, orchVars, cacheVars, detVars, raceVars, dupVars, visualVars>>

MergeNext == AppendScene1 \/ AppendScene2 \/ Merge \/ MergeAgain

MergeSpec == MergeInit /\ [][MergeNext]_vars

(***************************************************************************)
(* One detect_scenes call on a DetectionOrchestrator                       *)
(***************************************************************************)
SdOutcomes == OkOutcomes \cup {Failed}
TnOutcomes == OkOutcomes \cup {NotInstalled, Failed}
AudioVideoOutcomes == OkOutcomes \cup {Failed, NotFound}
VisualOutcomes == {Ok(<<>>), Raise("ImportError", "No module named imagehash"), Failed}

\* The behaviour of PySceneDetect when it is run a second time in the call,
\* as the fallback of _detect_with_transnetv2: the same scenes, or a failure.
SecondRun(first, tn) ==
    IF first.kind = "ok" /\ tn = NotInstalled THEN {first, Failed} ELSE {Unused}

\* the call returns or raises: the whole of detect_scenes under env e
Call(e) ==
    LET r == DetectScenes(method, e) IN
    /\ opc = "idle"
    /\ env' = e
    /\ ret' = r.out
    /\ log' = r.log
    /\ locals' = r.locals
    /\ opc' = "done"
    /\ UNCHANGED <<method, mergeVars, cacheVars, detVars, raceVars, dupVars, visualVars>>

CallSceneDetect ==
    /\ method = "scene_detect"
    /\ \E sd \in SdOutcomes :
          Call([NoEnv EXCEPT !.scene_detect = <<sd, Unused>>])

CallTransnetv2 ==
    /\ method = "transnetv2"
    /\ \E tn \in TnOutcomes :
          \E sd \in (IF tn = NotInstalled THEN SdOutcomes ELSE {Unused}) :
             Call([NoEnv EXCEPT !.transnetv2 = tn, !.scene_detect = <<sd, Unused>>])

CallHybrid ==
    /\ method = "hybrid"
    /\ \E sd \in SdOutcomes, tn \in TnOutcomes :
          \E sd2 \in SecondRun(sd, tn) :
             Call([NoEnv EXCEPT !.scene_detect = <<sd, sd2>>, !.transnetv2 = tn])

CallSilence ==
    /\ method = "silence"
    /\ \E si \in AudioVideoOutcomes : Call([NoEnv EXCEPT !.silence = si])

CallCredits ==
    /\ method = "credits"
    /\ \E cr \in AudioVideoOutcomes : Call([NoEnv EXCEPT !.credits = cr])

CallVisualDuplicates ==
    /\ method = "visual_duplicates"
    /\ \E vd \in VisualOutcomes : Call([NoEnv EXCEPT !.visual_duplicates = vd])

CallHybridExtended ==
    /\ method = "hybrid_extended"
    /\ \E sd \in SdOutcomes, tn \in TnOutcomes,
          si \in AudioVideoOutcomes, cr \in AudioVideoOutcomes :
          \E sd2 \in SecondRun(sd, tn) :
             Call([NoEnv EXCEPT !.scene_detect = <<sd, sd2>>, !.transnetv2 = tn,
                                !.silence = si, !.credits = cr])

CallAuto ==
    /\ method = "auto"
    /\ \E cuda \in {"available", "unavailable", "no_torch"} :
          \E tn \in (IF cuda = "available" THEN TnOutcomes ELSE {Unused}) :
             \E sd \in (IF cuda # "available" \/ tn = NotInstalled
                        THEN SdOutcomes ELSE {Unused}) :
                Call([NoEnv EXCEPT !.cuda = cuda, !.transnetv2 = tn,
                                   !.scene_detect = <<sd, Unused>>])

CallUnknown ==
    /\ method \notin KnownMethods
    /\ Call(NoEnv)

\* values of self.method the dispatch does not know: the constructor takes
\* any string (lines 19-33)
UnknownMethods == {"invalid_method", "Hybrid"}

OrchInit ==
    /\ MergeIdle
    /\ CacheRest
    /\ \E m \in KnownMethods \cup UnknownMethods : OrchIdle(m)

OrchNext ==
    \/ CallSceneDetect \/ CallTransnetv2 \/ CallHybrid \/ CallSilence
    \/ CallCredits \/ CallVisualDuplicates \/ CallHybridExtended
    \/ CallAuto \/ CallUnknown

OrchSpec == OrchInit /\ [][OrchNext]_vars

(***************************************************************************)
(* The callers of one CacheManager                                         *)
(***************************************************************************)
\* keys of the plain callers: "a", "a/" and "a_" (the last two name one file)
PlainKeys == { <<"a">>, <<"a", "/">>, <<"a", "_">> }

\* the videos and method arguments of the detect calls
Videos == {"ep1.mkv"}
MethodArgs == {"auto", "scene_detect"}
DetectionKeys == { MakeCacheKey(v, MethodKey(m)) : <<v, m>> \in Videos \X MethodArgs }

\* the keys whose files the directory of this behaviour can hold
Keys == DOMAIN expect

\* the payloads: lists of scene dicts (scene.model_dump()), here the first
\* n scenes of a video cut every 100 ms
Payloads ==
    { [i \in 1..n |-> SceneBoundary(100 * (i - 1), 100 * i, i - 1)] : n \in 1..MaxPayload }

\* the ttl arguments of set: None or 0..MaxTtl
TtlArgs == {None} \cup { Some(t) : t \in 0..MaxTtl }

\* a second passes
Tick ==
    /\ now < MaxTime
    /\ now' = now + 1
    /\ UNCHANGED <<config, files, cres, expect, detVars, raceVars, dupVars, mergeVars, orchVars, visualVars>>

\* cache_manager.get(key)
Get ==
    \E key \in Keys :
        LET r == CacheGet(config, files, now, key)
            found == files[GetCacheFile(key)]
        IN  /\ files' = r.files
            /\ cres' = [op |-> "get", key |-> key, result |-> r.result,
                        absent |-> ~found.exists,
                        expired |-> found.exists
                                    /\ now - found.timestamp > found.ttl,
                        ttl |-> None]
            /\ UNCHANGED <<config, now, expect, detVars, raceVars, dupVars, mergeVars, orchVars, visualVars>>

\* cache_manager.set(key, value, ttl) with a ttl argument of ttls
SetOf(ttls) ==
    \E key \in Keys, value \in Payloads, ttl \in ttls :
        /\ files' = CacheSet(config, files, now, key, value, ttl)
        /\ cres' = [NoCres EXCEPT !.op = "set", !.key = key, !.ttl = ttl]
        /\ expect' =
              IF ~config.enabled THEN expect
              ELSE [k \in Keys |->
                      IF k = key
                      THEN [live |-> TRUE, value |-> value, at |-> now,
                            ttl |-> files'[GetCacheFile(key)].ttl]
                      ELSE IF GetCacheFile(k) = GetCacheFile(key) THEN NoExpect
                      ELSE expect[k]]
        /\ UNCHANGED <<config, now, detVars, raceVars, dupVars, mergeVars, orchVars, visualVars>>

\* cache_manager.set(key, value, ttl)
Set == SetOf(TtlArgs)

\* cache_manager.set(key, value), as the detection cache writes its entries
\* (detectors/cache.py:114)
SetDefault == SetOf({None})

\* cache_manager.delete(key)
Delete ==
    \E key \in Keys :
        /\ files' = CacheDelete(files, key)
        /\ cres' = [NoCres EXCEPT !.op = "delete", !.key = key]
        /\ expect' = [k \in Keys |->
                        IF GetCacheFile(k) = GetCacheFile(key) THEN NoExpect
                        ELSE expect[k]]
        /\ UNCHANGED <<config, now, detVars, raceVars, dupVars, mergeVars, orchVars, visualVars>>

\* cache_manager.clear()
Clear ==
    /\ files' = CacheClear(files)
    /\ cres' = [NoCres EXCEPT !.op = "clear"]
    /\ expect' = [k \in Keys |-> NoExpect]
    /\ UNCHANGED <<config, now, detVars, raceVars, dupVars, mergeVars, orchVars, visualVars>>

\* cache_manager.cleanup_expired()
Cleanup ==
    /\ files' = CleanupExpired(config, files, now)
    /\ cres' = [NoCres EXCEPT !.op = "cleanup"]
    /\ UNCHANGED <<config, now, expect, detVars, raceVars, dupVars, mergeVars, orchVars, visualVars>>

Configs ==
    [enabled : BOOLEAN, ttl_seconds : {1, MaxTtl}, max_cache_size_mb : {1, MaxStoreMb}]

CacheInit ==
    /\ MergeIdle
    /\ OrchIdle("auto")
    /\ DetIdle(TRUE)
    /\ RaceIdle
    /\ DupIdle(FALSE, 0)
    /\ VisualRest
    /\ \E c \in Configs : CacheIdle(c, PlainKeys)

CacheNext == Tick \/ Get \/ Set \/ Delete \/ Clear \/ Cleanup

CacheSpec == CacheInit /\ [][CacheNext]_vars

(***************************************************************************)
(* The callers of one CachingDetectionOrchestrator                         *)
(***************************************************************************)
\* **kwargs of a detect call: the detectors' threshold (scene_detector.py:25,
\* transnetv2_detector.py:32), which decides the scenes they report
Kwargs == { [threshold |-> t] : t \in 1..MaxThreshold }

\* the collaborators of a call made with self.method = "auto" on a machine
\* without an accelerator: PySceneDetect reports the scenes of the longest
\* payload or fails
DetEnvs ==
    { [NoEnv EXCEPT !.cuda = "unavailable", !.scene_detect = <<sd, Unused>>] :
        sd \in { Ok(p) : p \in { q \in Payloads : Len(q) = MaxPayload } } \cup {Failed} }

\* how the cache reads and writes of one call go
Ios == [get : IoOutcomes, set : IoOutcomes]

\* what is kept of the call before the last one: the arguments and the key,
\* which the last call is compared with
Earlier(call) ==
    [video_path |-> call.video_path, method |-> call.method, kwargs |-> call.kwargs, key |-> call.key]

\* orchestrator.detect_scenes(video_path, method, **kwargs)
CachedDetect ==
    \E video_path \in Videos, m \in MethodArgs, kwargs \in Kwargs, e \in DetEnvs, io \in Ios :
        LET r == CachedDetectScenes(method, use_cache, config, files, now,
                                    video_path, m, kwargs, e, io)
            call == [video_path |-> video_path, method |-> m, kwargs |-> kwargs,
                     key |-> r.key, hit |-> r.hit, out |-> r.out,
                     env |-> e, io |-> r.io, log |-> r.log,
                     next |-> CacheGet(config, r.files, now, r.key).result]
        IN  /\ files' = r.files
            /\ ret' = r.out
            /\ log' = r.log
            /\ calls' = IF calls = <<>> THEN <<call>>
                        ELSE <<Earlier(calls[Len(calls)]), call>>
            /\ UNCHANGED <<method, env, opc, locals, config, now, cres, expect,
                           use_cache, raceVars, dupVars, mergeVars, visualVars>>

DetInit ==
    /\ MergeIdle
    /\ OrchIdle("auto")
    /\ VisualRest
    /\ CacheIdle(DefaultConfig, DetectionKeys)
    /\ RaceIdle
    /\ DupIdle(FALSE, 0)
    /\ \E u \in BOOLEAN : DetIdle(u)

DetNext == Tick \/ SetDefault \/ Clear \/ CachedDetect

DetSpec == DetInit /\ [][DetNext]_vars

(***************************************************************************)
(* Two threads on one cache directory                                      *)
(* get and set take no lock (cache.py:93-164), so the calls of two threads *)
(* interleave at their file system calls: exists, open with read, unlink;  *)
(* open for writing, which creates or truncates the file, and the write of *)
(* the buffered document when the file is closed (the payloads are smaller *)
(* than the io buffer).  A file unlinked while a set holds it open stays   *)
(* out of the directory, whatever that set writes.                         *)
(***************************************************************************)
\* the key all the calls use: the one of detect_scenes(ep1.mkv, "auto")
RaceVideo == "ep1.mkv"
RaceMethod == "auto"
RaceKey == MakeCacheKey(RaceVideo, MethodKey(RaceMethod))
RaceFile == GetCacheFile(RaceKey)

\* the file just created or truncated by open(cache_file, "w"), line 153
Truncated == Entry(<<>>, 0, 0)

\* the call of thread t is over
Finish(t) == finished' = Append(finished, t)

\* thread t calls cache_manager.get(key)
StartGet(t) ==
    /\ threads[t].pc = "idle"
    /\ threads' = [threads EXCEPT ![t] = [NoThread EXCEPT !.op = "get", !.pc = "exists"]]
    /\ UNCHANGED <<unreadable, finished, cacheVars, detVars, dupVars, mergeVars, orchVars, visualVars>>

\* thread t calls cache_manager.set(key, value)
StartSet(t) ==
    \E value \in Payloads :
        /\ threads[t].pc = "idle"
        /\ threads' = [threads EXCEPT ![t] = [NoThread EXCEPT !.op = "set", !.pc = "open",
                                                              !.value = value]]
        /\ UNCHANGED <<unreadable, finished, cacheVars, detVars, dupVars, mergeVars, orchVars, visualVars>>

\* thread t calls orchestrator.detect_scenes(video_path, method), lines 88-91
StartDetect(t) ==
    \E e \in DetEnvs :
        /\ threads[t].pc = "idle"
        /\ threads' = [threads EXCEPT ![t] = [NoThread EXCEPT !.op = "detect", !.env = e,
                                   !.pc = IF use_cache THEN "exists" ELSE "call"]]
        /\ UNCHANGED <<unreadable, finished, cacheVars, detVars, dupVars, mergeVars, orchVars, visualVars>>

\* get has returned result to thread t: the call is over, or detect_scenes
\* goes on at line 94
GetReturns(t, result) ==
    IF threads[t].op = "get"
    THEN /\ threads' = [threads EXCEPT ![t].pc = "done", ![t].result = result]
         /\ Finish(t)
    ELSE IF result.hit
    THEN /\ threads' = [threads EXCEPT ![t].pc = "done", ![t].result = result,
                                       ![t].out = Ok(result.value)]
         /\ Finish(t)
    ELSE /\ threads' = [threads EXCEPT ![t].pc = "call", ![t].result = result]
         /\ UNCHANGED finished

\* get, lines 102-109: the enabled test and cache_file.exists()
GetExists(t) ==
    /\ threads[t].pc = "exists"
    /\ IF ~config.enabled \/ ~files[RaceFile].exists
       THEN GetReturns(t, Miss)
       ELSE threads' = [threads EXCEPT ![t].pc = "read"] /\ UNCHANGED finished
    /\ UNCHANGED <<unreadable, cacheVars, detVars, dupVars, mergeVars, orchVars, visualVars>>

\* get, lines 111-112: open and json.load; a file that is gone or is not a
\* JSON document raises, and line 125 turns that into None
GetRead(t) ==
    /\ threads[t].pc = "read"
    /\ IF ~files[RaceFile].exists \/ RaceFile \in unreadable
       THEN GetReturns(t, Miss)
       ELSE /\ threads' = [threads EXCEPT ![t].pc = "check", ![t].data = files[RaceFile]]
            /\ UNCHANGED finished
    /\ UNCHANGED <<unreadable, cacheVars, detVars, dupVars, mergeVars, orchVars, visualVars>>

\* get, lines 115-124: the age of the loaded data against the store ttl; an
\* expired entry unlinks whatever file has the name now
GetCheck(t) ==
    /\ threads[t].pc = "check"
    /\ LET data == threads[t].data
           age_seconds == now - data.timestamp
       IN  IF age_seconds > config.ttl_seconds
           THEN /\ files' = [files EXCEPT ![RaceFile] = NoFile]
                /\ unreadable' = unreadable \ {RaceFile}
                /\ threads' = [u \in Threads |->
                      IF u = t
                      THEN [threads[t] EXCEPT !.expired = TRUE, !.result = Miss,
                                              !.pc = IF threads[t].op = "get" THEN "done" ELSE "call"]
                      ELSE IF threads[u].pc = "dump"
                      THEN [threads[u] EXCEPT !.unlinked = TRUE]
                      ELSE threads[u]]
                /\ IF threads[t].op = "get" THEN Finish(t) ELSE UNCHANGED finished
           ELSE /\ GetReturns(t, Hit(data.value))
                /\ UNCHANGED <<files, unreadable>>
    /\ UNCHANGED <<config, now, cres, expect, detVars, dupVars, mergeVars, orchVars, visualVars>>

\* detect_scenes, lines 103-110: the parent's detection; its exception leaves
\* the call, its scenes go to set when caching is on
DetectCall(t) ==
    /\ threads[t].pc = "call"
    /\ LET r == ParentDetectScenes(method, <<RaceVideo, RaceMethod>>, [threshold |-> 1],
                                   threads[t].env)
       IN  IF r.out.kind = "ok" /\ use_cache
           THEN /\ threads' = [threads EXCEPT ![t].pc = "open", ![t].out = r.out,
                                              ![t].value = r.out.scenes]
                /\ UNCHANGED finished
           ELSE /\ threads' = [threads EXCEPT ![t].pc = "done", ![t].out = r.out]
                /\ Finish(t)
    /\ UNCHANGED <<unreadable, cacheVars, detVars, dupVars, mergeVars, orchVars, visualVars>>

\* set, lines 140-153: the enabled test, the data dict with its time.time()
\* and open(cache_file, "w"), which creates the file or empties it
SetOpen(t) ==
    /\ threads[t].pc = "open"
    /\ IF ~config.enabled
       THEN /\ threads' = [threads EXCEPT ![t].pc = "done"]
            /\ Finish(t)
            /\ UNCHANGED <<files, unreadable>>
       ELSE /\ threads' = [threads EXCEPT ![t].pc = "dump", ![t].timestamp = now]
            /\ files' = [files EXCEPT ![RaceFile] = Truncated]
            /\ unreadable' = unreadable \cup {RaceFile}
            /\ UNCHANGED finished
    /\ UNCHANGED <<config, now, cres, expect, detVars, dupVars, mergeVars, orchVars, visualVars>>

\* the bytes of the file after a document is written at its start: the
\* document, or the document followed by the rest of a longer content, which
\* is no JSON document
WriteAtStart(content, data) ==
    IF SizeMb(content.value) > SizeMb(data.value)
    THEN [entry |-> content, json |-> FALSE]
    ELSE [entry |-> data, json |-> TRUE]

\* set, lines 154-160: json.dump and the close that writes the document,
\* then the size test and the sweep, which skips the files it cannot load
\* (line 214)
SetDump(t) ==
    /\ threads[t].pc = "dump"
    /\ LET data == Entry(threads[t].value, threads[t].timestamp, config.ttl_seconds)
           w == WriteAtStart(files[RaceFile], data)
           written == IF threads[t].unlinked THEN files
                      ELSE [files EXCEPT ![RaceFile] = w.entry]
           garbled == IF threads[t].unlinked THEN unreadable
                      ELSE IF w.json THEN unreadable \ {RaceFile}
                      ELSE unreadable \cup {RaceFile}
           swept == CleanupExpired(config, written, now)
       IN  /\ files' = IF GetCacheSize(written) > config.max_cache_size_mb
                       THEN [n \in DOMAIN files |->
                               IF n \in garbled THEN written[n] ELSE swept[n]]
                       ELSE written
           /\ unreadable' = garbled
    /\ threads' = [threads EXCEPT ![t].pc = "done"]
    /\ Finish(t)
    /\ UNCHANGED <<config, now, cres, expect, detVars, dupVars, mergeVars, orchVars, visualVars>>

\* the entries the directory may hold when the threads arrive: none, or one
\* written at time 0 with the store ttl
RaceEntries(c) == {NoFile} \cup { Entry(p, 0, c.ttl_seconds) : p \in Payloads }

RaceInit ==
    /\ MergeIdle
    /\ OrchIdle("auto")
    /\ VisualRest
    /\ DetIdle(TRUE)
    /\ RaceIdle
    /\ DupIdle(FALSE, 0)
    /\ \E c \in Configs :
          /\ config = c
          /\ \E entry \in RaceEntries(c) : files = [n \in {RaceFile} |-> entry]
    /\ now = 0
    /\ cres = NoCres
    /\ expect = [k \in {RaceKey} |-> NoExpect]

RaceStep(t) ==
    \/ StartGet(t)
    \/ StartSet(t)
    \/ StartDetect(t)
    \/ GetExists(t)
    \/ GetRead(t)
    \/ GetCheck(t)
    \/ DetectCall(t)
    \/ SetOpen(t)
    \/ SetDump(t)

RaceNext == Tick \/ \E t \in Threads : RaceStep(t)

RaceSpec == RaceInit /\ [][RaceNext]_vars

(***************************************************************************)
(* A caller of the two hamming distance functions                          *)
(***************************************************************************)
\* n times the character c
Repeat(c, n) == [k \in 1..n |-> c]

\* the pHashes of the callers, as compute_phash formats them (16 hex digits):
\* twelve equal digits and one of the endings below; "FFFF" is what a store
\* written by another tool in upper case would hold
HashEndings ==
    { <<"0", "0", "0", "0">>, <<"0", "0", "0", "1">>, <<"1", "2", "3", "4">>,
      <<"5", "6", "7", "8">>, <<"a", "a", "a", "a">>, <<"b", "b", "b", "b">>,
      <<"f", "f", "f", "f">>, <<"F", "F", "F", "F">> }

Hashes16 ==
    { Repeat(d, HASH_DIGITS - 4) \o e : <<d, e>> \in {"0", "a", "f"} \X HashEndings }

\* strings that are no pHash: not hex, not hex in one place, empty, and the
\* short hex strings of the finder's tests
OtherHashes ==
    { Repeat("z", HASH_DIGITS), Repeat("0", HASH_DIGITS - 1) \o <<"g">>, <<>>,
      Repeat("a", 4), Repeat("z", 4) }

HashInputs == Hashes16 \cup OtherHashes

\* the hashes of an all-black and of an all-white pattern
AllZero == Repeat("0", HASH_DIGITS)
AllOnes == Repeat("f", HASH_DIGITS)

\* the four calls of one function made by the caller
Distances(ab, ba, aa, bb) == [done |-> TRUE, ab |-> ab, ba |-> ba, aa |-> aa, bb |-> bb]

\* hashing.hamming_distance on the caller's hashes, in both orders and on
\* each hash with itself
CallHammingDistance ==
    /\ ~hd.done
    /\ hd' = Distances(HammingDistance(hash1, hash2), HammingDistance(hash2, hash1),
                       HammingDistance(hash1, hash1), HammingDistance(hash2, hash2))
    /\ UNCHANGED <<hash1, hash2, fd, finderVars, groupVars,
                   mergeVars, orchVars, cacheVars, detVars, raceVars, dupVars>>

\* DuplicateFinder._hamming_distance on the same
CallFinderHammingDistance ==
    /\ ~fd.done
    /\ fd' = Distances(Returned(FinderHammingDistance(hash1, hash2)),
                       Returned(FinderHammingDistance(hash2, hash1)),
                       Returned(FinderHammingDistance(hash1, hash1)),
                       Returned(FinderHammingDistance(hash2, hash2)))
    /\ UNCHANGED <<hash1, hash2, hd, finderVars, groupVars,
                   mergeVars, orchVars, cacheVars, detVars, raceVars, dupVars>>

HashInit ==
    /\ MergeIdle
    /\ OrchIdle("auto")
    /\ CacheIdle(DefaultConfig, {})
    /\ DetIdle(TRUE)
    /\ RaceIdle
    /\ DupIdle(FALSE, 0)
    /\ FinderIdle(8)
    /\ GroupIdle(3000, 2000)
    /\ \E h1 \in HashInputs, h2 \in HashInputs : HashIdle(h1, h2)

HashNext == CallHammingDistance \/ CallFinderHammingDistance

HashSpec == HashInit /\ [][HashNext]_vars

(***************************************************************************)
(* One find_duplicates_for_hashes call on a DuplicateFinder                *)
(***************************************************************************)
\* the episode being analysed and an episode analysed before
SourceEpisode == 1
OtherEpisode == 2

\* the frames of the episode: sampled at 0 and 1000 ms; a frame hash is a
\* pHash or a string that is none
SourceTimestamps == {0, 1000}
SourceHashes == { AllZero, Repeat("z", HASH_DIGITS) }

\* the hashes the store holds for the other episode: at distance 0, 8 and
\* 16 from AllZero, and one that is no hex string
CandidateHashes ==
    { AllZero,
      Repeat("0", HASH_DIGITS - 4) \o <<"5", "6", "7", "8">>,
      Repeat("0", HASH_DIGITS - 4) \o <<"f", "f", "f", "f">>,
      Repeat("z", HASH_DIGITS) }

\* the rows find_similar_hashes returns: dicts with episode_id, timestamp_ms
\* and phash (read at lines 111-120)
Candidates ==
    { [episode_id |-> OtherEpisode, timestamp_ms |-> 0, phash |-> h] : h \in CandidateHashes }

\* what one find_similar_hashes query may do: return up to MaxCandidates
\* rows, raise RepositoryError, or raise something else
StoreAnswers ==
    { Result(l) : l \in SeqsUpTo(Candidates, MaxCandidates) }
        \cup { Error("RepositoryError", "Failed to find similar hashes"),
               Error("OperationalError", "database is locked") }

\* the answers to the queries of one call on n hashes: every query is
\* answered until one raises
RECURSIVE AnswerSeqs(_)
AnswerSeqs(n) ==
    IF n = 0 THEN { <<>> }
    ELSE { <<a>> \o rest : <<a, rest>> \in
             { ar \in StoreAnswers \X AnswerSeqs(n - 1) :
                 ar[1].kind = "ok" \/ ar[2] = [i \in 1..(n - 1) |-> Result(<<>>)] } }

\* the caller builds the argument hashes
AddHash ==
    /\ fpc = "input"
    /\ Len(hashes) < MaxSources
    /\ \E t \in SourceTimestamps, h \in SourceHashes :
           hashes' = Append(hashes, <<t, h>>)
    /\ UNCHANGED <<hamming_threshold, similar, matches, fpc, hashVars, groupVars,
                   mergeVars, orchVars, cacheVars, detVars, raceVars, dupVars>>

\* finder.find_duplicates_for_hashes(SourceEpisode, hashes)
FindDuplicates ==
    /\ fpc = "input"
    /\ \E answers \in AnswerSeqs(Len(hashes)) :
           LET r == FindDuplicatesForHashes(hamming_threshold, SourceEpisode,
                                            hashes, answers)
           IN  /\ matches' = r.out
               /\ similar' = r.queries
    /\ fpc' = "done"
    /\ UNCHANGED <<hamming_threshold, hashes, hashVars, groupVars,
                   mergeVars, orchVars, cacheVars, detVars, raceVars, dupVars>>

\* the thresholds of the finders: the least, the default (line 29) and the
\* greatest of the documented range 0-64 (line 34)
Thresholds == {0, 8, MAX_DISTANCE}

FinderInit ==
    /\ MergeIdle
    /\ OrchIdle("auto")
    /\ CacheIdle(DefaultConfig, {})
    /\ DetIdle(TRUE)
    /\ RaceIdle
    /\ DupIdle(FALSE, 0)
    /\ HashIdle(<<>>, <<>>)
    /\ GroupIdle(3000, 2000)
    /\ \E t \in Thresholds : FinderIdle(t)

FinderNext == AddHash \/ FindDuplicates

FinderSpec == FinderInit /\ [][FinderNext]_vars

(***************************************************************************)
(* A caller of _group_duplicates_into_segments                             *)
(***************************************************************************)
\* source timestamps of the matches (frames sampled once a second, some
\* without a match, and one frame of a video sampled twice a second: fps is
\* an argument of detect_visual_duplicates) and the distances they were
\* found at
MatchTimestamps == {0, 500, 1000, 2000, 4000, 7000}
MatchDistances == {0, 8}

\* the settings of the callers: gap_tolerance_ms (default 2000) and
\* min_duration_ms (default 3000; 500 and 5000 in the tests)
GapTolerances == {-1, 0, 1000, 2000}
MinDurations == {0, 500, 1001, 3000}

\* the caller builds the argument duplicates, in any order
AddDuplicate ==
    /\ gpc = "input"
    /\ Len(duplicates) < MaxDuplicates
    /\ \E t \in MatchTimestamps, d \in MatchDistances :
           duplicates' = Append(duplicates,
                               DuplicateMatch(SourceEpisode, t, AllZero,
                                              OtherEpisode, 0, AllZero, d))
    /\ UNCHANGED <<min_duration_ms, gap_tolerance_ms, segments, groups, gpc,
                   hashVars, finderVars, mergeVars, orchVars, cacheVars, detVars, raceVars, dupVars>>

\* _group_duplicates_into_segments(duplicates, min_duration_ms, gap_tolerance_ms)
GroupDuplicates ==
    /\ gpc = "input"
    /\ LET r == GroupDuplicatesIntoSegments(duplicates, min_duration_ms, gap_tolerance_ms)
       IN  /\ segments' = r.out
           /\ groups' = r.groups
    /\ gpc' = "done"
    /\ UNCHANGED <<duplicates, min_duration_ms, gap_tolerance_ms,
                   hashVars, finderVars, mergeVars, orchVars, cacheVars, detVars, raceVars, dupVars>>

GroupInit ==
    /\ MergeIdle
    /\ OrchIdle("auto")
    /\ CacheIdle(DefaultConfig, {})
    /\ DetIdle(TRUE)
    /\ RaceIdle
    /\ DupIdle(FALSE, 0)
    /\ HashIdle(<<>>, <<>>)
    /\ FinderIdle(8)
    /\ \E m \in MinDurations, g \in GapTolerances : GroupIdle(m, g)

GroupNext == AddDuplicate \/ GroupDuplicates

GroupSpec == GroupInit /\ [][GroupNext]_vars

(***************************************************************************)
(* A caller of detect_visual_duplicates                                    *)
(***************************************************************************)
\* the video file: not there, there but not decodable, or fine
VideoFiles == {"missing", "unreadable", "ok"}

\* the episode ids passed: 0 and the id of the episode
EpisodeIds == {0, SourceEpisode}

\* what one find_similar_hashes query may do here: return no row or one row
\* of the other episode, or raise
DupStoreAnswers ==
    { Result(<<>>), Error("RepositoryError", "Failed to find similar hashes") }
        \cup { Result(<<c>>) : c \in Candidates }

\* detect_visual_duplicates(video_path, db, episode_id, hamming_threshold=...,
\* min_duration_ms=..., gap_tolerance_ms=...) on a video whose frames hash to
\* hashes
DetectDuplicates ==
    /\ fpc = "input"
    /\ \E video \in VideoFiles, answers \in [1..Len(hashes) -> DupStoreAnswers] :
           LET r == DetectVisualDuplicates(video, episode.db, episode.id, hashes, answers,
                        hamming_threshold, min_duration_ms, gap_tolerance_ms)
           IN  /\ segments' = r.out
               /\ groups' = r.groups
               /\ duplicates' = r.duplicates
               /\ matches' = r.found
               /\ similar' = r.queries
               /\ repo_calls' = r.calls
    /\ fpc' = "done"
    /\ UNCHANGED <<episode, hamming_threshold, hashes, min_duration_ms, gap_tolerance_ms,
                   gpc, hashVars, mergeVars, orchVars, cacheVars, detVars, raceVars>>

DupInit ==
    /\ MergeIdle
    /\ OrchIdle("visual_duplicates")
    /\ CacheIdle(DefaultConfig, {})
    /\ DetIdle(TRUE)
    /\ RaceIdle
    /\ HashIdle(<<>>, <<>>)
    /\ FinderIdle(8)
    /\ \E m \in {500, 3000} : GroupIdle(m, 2000)
    /\ \E db \in BOOLEAN, id \in EpisodeIds : DupIdle(db, id)

DupNext == AddHash \/ DetectDuplicates

DupSpec == DupInit /\ [][DupNext]_vars

(***************************************************************************)
(* Interval merge: properties                                              *)
(***************************************************************************)
\* the (start_ms, end_ms) pairs of a list of scenes
Spans(scenes) == [i \in 1..Len(scenes) |-> <<scenes[i].start_ms, scenes[i].end_ms>>]

\* C1: the list returned by the interval merge is sorted by start_ms, has no
\* two overlapping intervals and every consecutive pair is more than
\* ADJACENCY_MS apart, for any two input lists, an empty one included.
C1_MergeSortedSeparated ==
    mpc # "input" =>
        \A i \in 1..(Len(merged) - 1) :
            /\ merged[i].start_ms <= merged[i + 1].start_ms
            /\ merged[i].end_ms <= merged[i + 1].start_ms
            /\ merged[i + 1].start_ms - merged[i].end_ms > ADJACENCY_MS

\* The reference algorithm of C8, on (start, end) pairs: the least pair of a
\* non-empty set of pairs in (start, end) order
LeastSpan(S) ==
    CHOOSE x \in S : \A y \in S :
        x[1] < y[1] \/ (x[1] = y[1] /\ x[2] <= y[2])

\* the positions of spans not yet taken, sorted by (start, end)
RECURSIVE RefSort(_, _)
RefSort(spans, left) ==
    IF left = {} THEN <<>>
    ELSE LET least == LeastSpan({ spans[i] : i \in left })
             pick == CHOOSE i \in left : spans[i] = least
         IN  <<least>> \o RefSort(spans, left \ {pick})

\* sweep: absorb next into current iff next.start <= current.end + 100
RECURSIVE RefSweep(_, _, _)
RefSweep(sorted, current, out) ==
    IF sorted = <<>> THEN Append(out, current)
    ELSE LET next == Head(sorted) IN
         IF next[1] <= current[2] + 100
         THEN RefSweep(Tail(sorted), <<current[1], Max(current[2], next[2])>>, out)
         ELSE RefSweep(Tail(sorted), next, Append(out, current))

RefMerge(A, B) ==
    LET spans == Spans(A \o B)
        sorted == RefSort(spans, DOMAIN spans)
    IN  IF sorted = <<>> THEN <<>>
        ELSE RefSweep(Tail(sorted), Head(sorted), <<>>)

\* C8: for any input lists A and B, merge(A, B) equals the reference
\* algorithm (concatenate, sort by (start_ms, end_ms), sweep absorbing the
\* next interval iff next.start_ms <= current.end_ms + 100).
C8_MergeEqualsReference ==
    mpc # "input" => Spans(merged) = RefMerge(scenes1, scenes2)

\* C9: merging the output of merge(A, B) again, with no second list, returns
\* a list with the same (start_ms, end_ms, index) values.
C9_MergeIdempotent ==
    mpc = "remerged" => remerged = merged

\* C9 witness: two non-empty lists were merged, scenes were absorbed, and the
\* result was merged again.
C9_Witness ==
    /\ mpc = "remerged"
    /\ scenes1 # <<>>
    /\ scenes2 # <<>>
    /\ Len(merged) >= 2
    /\ Len(merged) < Len(scenes1) + Len(scenes2)

\* C10: the i-th interval of the merge output carries index i (0-based),
\* whatever indices the inputs carried, also when the second list is empty.
C10_MergeReindexed ==
    mpc # "input" =>
        \A i \in 1..Len(merged) : merged[i].scene_index = i - 1

\* C11: the interval merge is pure: after merge(A, B) returned, every
\* interval object of A and of B has the start_ms, end_ms and index it had
\* before the call, A and B hold the same elements in the same order, and
\* the result is a new list.
C11_MergePure ==
    mpc # "input" =>
        /\ after1 = scenes1
        /\ after2 = scenes2
        /\ returned = "new"

(***************************************************************************)
(* Strategy orchestrator: properties                                       *)
(***************************************************************************)
\* some scanner of the call succeeds when it is run
SomeScannerSucceeds ==
    \/ env.scene_detect[1].kind = "ok"
    \/ env.transnetv2.kind = "ok"
    \/ env.silence.kind = "ok"
    \/ env.credits.kind = "ok"

\* C2: a hybrid_extended call fails only if every one of the four scanners
\* fails; whenever at least one scanner succeeds the call returns a result.
C2_HybridExtendedFailsOnlyIfAllFail ==
    (method = "hybrid_extended" /\ opc = "done" /\ SomeScannerSucceeds)
        => ret.kind = "ok"

\* C3: the result of a hybrid_extended call is the interval merge of the
\* concatenated outputs of the successful scanners: sorted by start_ms, with
\* intervals that overlap or lie within 100 ms of each other combined.
C3_HybridExtendedMerged ==
    (method = "hybrid_extended" /\ opc = "done" /\ ret.kind = "ok")
        => Spans(ret.scenes) = RefMerge(locals.results, <<>>)

\* C4: in a hybrid call, when BoundaryScan succeeds and NeuralScan reports
\* that its library is not installed, the call succeeds, the neural
\* contribution is empty and the result is the one built from BoundaryScan's
\* output alone.
C4_HybridNeuralUnavailable ==
    (/\ method = "hybrid"
     /\ opc = "done"
     /\ env.scene_detect[1].kind = "ok"
     /\ env.transnetv2 = NotInstalled)
        => /\ ret.kind = "ok"
           /\ locals.transnetv2_scenes = <<>>
           /\ ret.scenes = MergeSceneLists(env.scene_detect[1].scenes, <<>>)

\* C12: a detect call whose configured method is not one of the eight known
\* methods fails with ValueError 'Unknown detection method' and invokes no
\* detector and no collaborator.
C12_UnknownMethodRejected ==
    (method \notin KnownMethods /\ opc = "done") =>
        /\ ret = Raise("ValueError", "Unknown detection method")
        /\ log = <<>>

\* C12 witness: a call on an orchestrator with an unknown method has ended.
C12_Witness ==
    /\ method \in UnknownMethods
    /\ opc = "done"
    /\ ret.kind = "ValueError"

\* the detector a single-method call runs first
FirstOutcome ==
    IF method = "scene_detect" THEN env.scene_detect[1]
    ELSE IF method = "transnetv2" THEN env.transnetv2
    ELSE IF method = "silence" THEN env.silence
    ELSE env.credits

\* C13: in single-method transnetv2 mode a 'library is not installed'
\* failure of the neural detector is absorbed and the call returns what
\* BoundaryScan returns; every other failure of a single-method call (a
\* processing failure of the neural detector, any failure of boundary,
\* silence or credits) reaches the caller and no fallback detector is run.
C13_SingleMethodFallback ==
    (method \in {"scene_detect", "transnetv2", "silence", "credits"} /\ opc = "done") =>
        /\ (method = "transnetv2" /\ env.transnetv2 = NotInstalled)
              => (ret = env.scene_detect[1] /\ log = <<"transnetv2", "scene_detect">>)
        /\ (FirstOutcome.kind # "ok"
              /\ ~(method = "transnetv2" /\ env.transnetv2 = NotInstalled))
              => (ret = FirstOutcome /\ log = <<method>>)

\* C13 witness: the neural library is missing, the fallback ran and its
\* scenes were returned.
C13_Witness ==
    /\ method = "transnetv2"
    /\ opc = "done"
    /\ env.transnetv2 = NotInstalled
    /\ ret.kind = "ok"
    /\ ret.scenes # <<>>
    /\ Runs(log, "scene_detect") = 1

\* C14: an auto call dispatches on the accelerator probe alone: with the
\* accelerator available it runs NeuralScan (whose outcome, fallback
\* included, is the call's outcome); with it unavailable it runs
\* BoundaryScan and never invokes the neural detector.
C14_AutoFollowsProbe ==
    (method = "auto" /\ opc = "done") =>
        /\ Runs(log, "torch.cuda") = 1
        /\ env.cuda = "available" =>
              /\ Runs(log, "transnetv2") = 1
              /\ ret = IF env.transnetv2 = NotInstalled
                        THEN env.scene_detect[1] ELSE env.transnetv2
        /\ env.cuda # "available" =>
              /\ Runs(log, "transnetv2") = 0
              /\ Runs(log, "scene_detect") = 1
              /\ ret = env.scene_detect[1]

\* C14 witness: the probe reported no accelerator and BoundaryScan's scenes
\* were returned.
C14_Witness ==
    /\ method = "auto"
    /\ opc = "done"
    /\ env.cuda = "unavailable"
    /\ ret.kind = "ok"
    /\ ret.scenes # <<>>

\* the scanners the orchestrator runs
Scanners == {"scene_detect", "transnetv2", "silence", "credits", "visual_duplicates"}

\* C27: within one Hybrid or HybridExtended call each scanner is invoked at
\* most once; in particular the boundary detector runs exactly once per call,
\* also when the neural detector reports that its library is not installed.
C27_EachScannerAtMostOnce ==
    (method \in {"hybrid", "hybrid_extended"} /\ opc = "done") =>
        /\ \A name \in Scanners : Runs(log, name) <= 1
        /\ Runs(log, "scene_detect") = 1

(***************************************************************************)
(* Hamming distance: properties                                            *)
(***************************************************************************)
\* the binary digit of weight 2^w of a 16-digit hash, read off its digits
HashBit(hash, w) == (DigitValue(hash[HASH_DIGITS - (w \div 4)]) \div (2 ^ (w % 4))) % 2

\* popcount(a XOR b): the number of the 64 bit positions in which a and b
\* differ
Popcount64(a, b) ==
    Cardinality({ w \in 0..(4 * HASH_DIGITS - 1) : HashBit(a, w) # HashBit(b, w) })

\* C15: for 64-bit hashes a and b given as 16-digit hex strings, both
\* distance functions give popcount(a XOR b), the same in both argument
\* orders, 0 for a hash and itself, always within 0..64, and 64 for
\* 0000000000000000 and ffffffffffffffff.
C15_HammingDistance ==
    (hd.done /\ fd.done /\ hash1 \in Hashes16 /\ hash2 \in Hashes16) =>
        /\ hd.ab = Returned(Popcount64(hash1, hash2))
        /\ fd.ab = hd.ab
        /\ hd.ab = hd.ba
        /\ fd.ab = fd.ba
        /\ hd.aa = Returned(0) /\ hd.bb = Returned(0)
        /\ fd.aa = Returned(0) /\ fd.bb = Returned(0)
        /\ hd.ab.value \in 0..MAX_DISTANCE
        /\ (hash1 = AllZero /\ hash2 = AllOnes) => hd.ab = Returned(64)

\* C15 witness: both functions were applied to two different 16-digit hashes
\* that are neither equal nor complementary.
C15_Witness ==
    /\ hd.done
    /\ fd.done
    /\ hash1 \in Hashes16
    /\ hash2 \in Hashes16
    /\ hd.ab.kind = "ok"
    /\ hd.ab.value = 5

(***************************************************************************)
(* Duplicate search: properties                                            *)
(***************************************************************************)
\* a string of hex digits
IsHex(hash) == hash # <<>> /\ \A i \in 1..Len(hash) : IsHexDigit(hash[i])

\* C16: for every hamming_threshold in 0..64, a candidate is never kept as a
\* duplicate match when its hash or the source hash fails to parse as hex
\* (the distance is then the maximum, 64, and this never yields a match).
C16_InvalidHashNeverMatches ==
    (fpc = "done" /\ matches.kind = "ok") =>
        \A k \in 1..Len(matches.items) :
            /\ IsHex(matches.items[k].source_phash)
            /\ IsHex(matches.items[k].match_phash)

\* the exact distance of two hashes of the store: the number of differing
\* bits, and the maximum when one of them is no hex string
ExactDistance(a, b) ==
    IF IsHex(a) /\ IsHex(b) THEN Popcount64(a, b) ELSE MAX_DISTANCE

\* the (query, row) pairs of the call, in the order the store returned them
RowsOf(queries) ==
    { <<i, j>> \in (1..Len(queries)) \X (1..MaxCandidates) :
        queries[i].answer.kind = "ok" /\ j <= Len(queries[i].answer.items) }

\* the match the search has to report for row j of query i
MatchFor(i, j) ==
    LET row == similar[i].answer.items[j]
    IN  DuplicateMatch(SourceEpisode, hashes[i][1], hashes[i][2],
                       row.episode_id, row.timestamp_ms, row.phash,
                       ExactDistance(hashes[i][2], row.phash))

\* the rows within the threshold
KeptRows ==
    { ij \in RowsOf(similar) :
        MatchFor(ij[1], ij[2]).hamming_distance <= hamming_threshold }

\* C17: whatever candidates the store returns, the search keeps a candidate
\* iff its exact Hamming distance to the source hash is <= hamming_threshold:
\* every returned match records that exact distance, which is <= the
\* threshold, and no candidate within the threshold is dropped.
C17_KeptIffWithinThreshold ==
    (fpc = "done" /\ matches.kind = "ok") =>
        LET kept == KeptRows
            expected == { MatchFor(ij[1], ij[2]) : ij \in kept }
        IN  /\ \A k \in 1..Len(matches.items) :
                  /\ matches.items[k].hamming_distance <= hamming_threshold
                  /\ matches.items[k] \in expected
            /\ \A m \in expected :
                  \E k \in 1..Len(matches.items) : matches.items[k] = m
            /\ Len(matches.items) = Cardinality(kept)

\* C17 witness: the store returned a row within the threshold and a row
\* outside it; the first was kept and the second dropped.
C17_Witness ==
    /\ fpc = "done"
    /\ matches.kind = "ok"
    /\ hamming_threshold = 8
    /\ Len(matches.items) >= 1
    /\ \E k \in 1..Len(matches.items) : matches.items[k].hamming_distance = 8
    /\ Cardinality(RowsOf(similar)) > Cardinality(KeptRows)

(***************************************************************************)
(* Temporal grouping: properties                                           *)
(***************************************************************************)
\* the source timestamp of the match at position p
Ts(p) == duplicates[p].source_timestamp_ms

\* the argument is sorted by source timestamp
SortedDuplicates ==
    \A p \in 1..(Len(duplicates) - 1) : Ts(p) <= Ts(p + 1)

\* the call returned a list of segments
Grouped == gpc = "done" /\ segments.kind = "ok"

\* C18 as stated: for matches sorted by source timestamp, no two matches
\* whose source timestamps differ by more than gap_tolerance_ms are placed
\* in the same output segment.
C18_NoTwoMatchesFurtherApart ==
    (Grouped /\ SortedDuplicates) =>
        \A g \in 1..Len(groups) :
            \A a, b \in 1..Len(groups[g]) :
                a # b => Ts(groups[g][b]) - Ts(groups[g][a]) <= gap_tolerance_ms

\* C18 amended: for matches sorted by source timestamp, no two consecutive
\* matches of the list whose source timestamps differ by more than
\* gap_tolerance_ms are placed in the same output segment.
C18_NoConsecutiveMatchesFurtherApart ==
    (Grouped /\ SortedDuplicates) =>
        \A g \in 1..Len(groups) :
            \A a, b \in 1..Len(groups[g]) :
                groups[g][b] = groups[g][a] + 1
                    => Ts(groups[g][b]) - Ts(groups[g][a]) <= gap_tolerance_ms

\* C18 witness: two consecutive matches further apart than the tolerance
\* ended in two segments, and one segment holds a chain of matches whose
\* ends are further apart than the tolerance.
C18_Witness ==
    /\ Grouped
    /\ SortedDuplicates
    /\ Len(groups) = 2
    /\ \E p \in 1..(Len(duplicates) - 1) : Ts(p + 1) - Ts(p) > gap_tolerance_ms
    /\ \E g \in 1..Len(groups) : Len(groups[g]) >= 2

\* the positions at which the walk starts a group: the first, and every
\* position further than the tolerance from the one before it
GroupStarts ==
    { p \in 1..Len(duplicates) :
        p = 1 \/ Ts(p) - Ts(p - 1) > gap_tolerance_ms }

\* the last position of the group starting at p
GroupEnd(p) ==
    LET later == { q \in GroupStarts : q > p }
    IN  IF later = {} THEN Len(duplicates)
        ELSE (CHOOSE q \in later : \A r \in later : q <= r) - 1

\* the span [start_ms, end_ms) of the group starting at p
GroupSpan(p) == <<Ts(p), Ts(GroupEnd(p)) + 1000>>

\* the starts of the groups that are long enough, and the k-th of them
KeptStarts ==
    { p \in GroupStarts : GroupSpan(p)[2] - GroupSpan(p)[1] >= min_duration_ms }
KeptStart(k) ==
    CHOOSE p \in KeptStarts : Cardinality({ q \in KeptStarts : q < p }) = k - 1

\* C19: every segment returned by the grouping step has
\* end_ms - start_ms >= min_duration_ms; the groups whose span
\* (last - first + 1000 ms) is shorter are discarded, the final group
\* included, and no other group is.
C19_NoShortSegment ==
    Grouped =>
        /\ \A k \in 1..Len(segments.items) :
              segments.items[k].end_ms - segments.items[k].start_ms >= min_duration_ms
        /\ Len(segments.items) = Cardinality(KeptStarts)
        /\ \A g \in 1..Len(groups) : groups[g][1] \in KeptStarts

\* C19 witness: the walk made two groups; the first was kept and the final
\* group was too short and was discarded.
C19_Witness ==
    /\ Grouped
    /\ SortedDuplicates
    /\ Len(segments.items) = 1
    /\ Cardinality(GroupStarts) = 2
    /\ 1 \in KeptStarts

\* C20: the walk over the sorted matches starts a new group exactly when the
\* gap to the previous match exceeds gap_tolerance_ms; each kept group gives
\* one segment from its first match's source timestamp to its last match's
\* source timestamp + 1000; matches at 0, 1000, 2000 with gap tolerance 2000
\* and min_duration 500 give exactly the segment [0, 3000).
C20_GroupsAndSegments ==
    (Grouped /\ SortedDuplicates) =>
        /\ Len(segments.items) = Cardinality(KeptStarts)
        /\ \A k \in 1..Len(segments.items) :
              /\ <<segments.items[k].start_ms, segments.items[k].end_ms>>
                    = GroupSpan(KeptStart(k))
              /\ groups[k] = [j \in 1..(GroupEnd(KeptStart(k)) - KeptStart(k) + 1)
                                |-> KeptStart(k) + j - 1]
        /\ (/\ [p \in 1..Len(duplicates) |-> Ts(p)] = <<0, 1000, 2000>>
            /\ gap_tolerance_ms = 2000
            /\ min_duration_ms = 500)
              => (/\ Len(segments.items) = 1
                  /\ segments.items[1].start_ms = 0
                  /\ segments.items[1].end_ms = 3000)

\* C20 witness: the matches at 0, 1000 and 2000 were grouped with gap
\* tolerance 2000 and min_duration 500.
C20_Witness ==
    /\ Grouped
    /\ [p \in 1..Len(duplicates) |-> Ts(p)] = <<0, 1000, 2000>>
    /\ gap_tolerance_ms = 2000
    /\ min_duration_ms = 500
    /\ Len(segments.items) = 1

\* the returned segments ascend strictly by start_ms, none is empty and none
\* reaches into the next
AscendingDisjoint ==
    LET segs == segments.items IN
    /\ \A i \in DOMAIN segs : segs[i].end_ms > segs[i].start_ms
    /\ \A i \in 1..(Len(segs) - 1) :
          /\ segs[i].start_ms < segs[i + 1].start_ms
          /\ segs[i].end_ms <= segs[i + 1].start_ms

\* matches of different frames are at least a sample window apart
SampledApart ==
    \A p \in 1..(Len(duplicates) - 1) :
        Ts(p + 1) = Ts(p) \/ Ts(p + 1) - Ts(p) >= SAMPLE_WINDOW_MS

\* C28: for any sorted matches and any gap_tolerance_ms >= 0 and
\* min_duration_ms, the segments returned by the grouping step are in strictly
\* ascending start_ms order and pairwise non-overlapping as half-open ranges:
\* each segment's end_ms is <= the next segment's start_ms, and each has
\* end_ms > start_ms.
C28_SegmentsAscendingDisjoint ==
    (Grouped /\ SortedDuplicates /\ gap_tolerance_ms >= 0) => AscendingDisjoint

\* C28, amended: the same for sorted matches whose source timestamps, where
\* they differ, differ by at least the sample window of 1000 ms (frames
\* sampled once a second or less often).
C28_SegmentsDisjointWhenSampledApart ==
    (Grouped /\ SortedDuplicates /\ SampledApart /\ gap_tolerance_ms >= 0)
        => AscendingDisjoint

\* two segments were returned for such matches, some of them of the same
\* frame, the first segment ending where the second starts
C28_Witness ==
    /\ Grouped /\ SortedDuplicates /\ SampledApart /\ gap_tolerance_ms >= 0
    /\ Len(segments.items) = 2
    /\ segments.items[1].end_ms = segments.items[2].start_ms
    /\ \E p \in 1..(Len(duplicates) - 1) : Ts(p) = Ts(p + 1)

(***************************************************************************)
(* Result cache: properties                                                *)
(***************************************************************************)
\* C5: get(key) returns a miss exactly when the key is absent or its entry is
\* expired, expired meaning now - created_at > the ttl the entry was written
\* with (the ttl recorded in it by set); and a get that finds an expired
\* entry removes it from the backing store.
C5_GetMissIffAbsentOrExpired ==
    (cres.op = "get" /\ config.enabled) =>
        /\ ~cres.result.hit <=> (cres.absent \/ cres.expired)
        /\ cres.expired => ~files[GetCacheFile(cres.key)].exists

\* C6: after set(k, v) succeeded on an enabled cache, a get(k) issued before
\* the entry's ttl expires, with no intervening set, delete or clear
\* affecting k, returns v.
C6_SetThenGetRoundTrip ==
    (/\ cres.op = "get"
     /\ config.enabled
     /\ expect[cres.key].live
     /\ now - expect[cres.key].at <= expect[cres.key].ttl)
        => cres.result = Hit(expect[cres.key].value)

\* an entry whose age is within the ttl recorded in it
Unexpired(entry, t) == entry.exists /\ t - entry.timestamp <= entry.ttl

\* C21: the eviction sweep that set runs when the store size exceeds the
\* configured maximum removes only expired entries: every entry with
\* now - created_at <= its ttl is still present, as it was, when set returns,
\* and so is the entry just written, even if the store stays above the
\* maximum.  (A step that leaves "set" as the last operation and the clock
\* alone is a set.)
C21_SweepRemovesOnlyExpired ==
    [][(cres'.op = "set" /\ now' = now /\ config.enabled) =>
         LET cache_file == GetCacheFile(cres'.key) IN
         /\ Unexpired(files'[cache_file], now')
         /\ \A n \in DOMAIN files \ {cache_file} :
               Unexpired(files[n], now) => files'[n] = files[n]]_vars

\* a set left the store above the maximum, so its sweep ran, and an unexpired
\* entry of another file is still there beside the one just written
C21_Witness ==
    /\ cres.op = "set"
    /\ config.enabled
    /\ GetCacheSize(files) > config.max_cache_size_mb
    /\ files[GetCacheFile(cres.key)].timestamp = now
    /\ \E n \in DOMAIN files \ {GetCacheFile(cres.key)} :
          Unexpired(files[n], now) /\ files[n].timestamp < now

\* C22: set(k, v, ttl=t) records ttl t in the written entry for every
\* supplied t >= 0; the store-wide default ttl is recorded only when no ttl is
\* supplied.
C22_SetRecordsSuppliedTtl ==
    (cres.op = "set" /\ config.enabled) =>
        files[GetCacheFile(cres.key)].ttl =
            IF cres.ttl.some THEN cres.ttl.v ELSE config.ttl_seconds

\* C30: distinct cache keys are stored independently: for any two different
\* keys k1 and k2 (including keys with characters other than letters, digits,
\* '-' and '_'), a set, delete or read-time expiry of k1 never changes what
\* get(k2) returns.  (A step that leaves the clock alone and has "set",
\* "delete" or "get" as the last operation is that operation on cres'.key.)
C30_KeysIndependent ==
    [][(cres'.op \in {"set", "delete", "get"} /\ now' = now) =>
         \A k2 \in Keys \ {cres'.key} :
             CacheGet(config, files', now, k2).result
                 = CacheGet(config, files, now, k2).result]_vars

(***************************************************************************)
(* Detection cache: properties                                             *)
(***************************************************************************)
\* C7: the cache key of a cached detect call is a function of (subject,
\* method, result-affecting parameters): two calls on the same subject and
\* method that differ in such a parameter use different keys.
C7_KeyCoversParameters ==
    \A i, j \in DOMAIN calls :
        (/\ calls[i].video_path = calls[j].video_path
         /\ calls[i].method = calls[j].method
         /\ calls[i].kwargs # calls[j].kwargs)
            => calls[i].key # calls[j].key

\* what the detection for the requested method gives on the collaborators of
\* a call
Detection(call) == DetectScenes(call.method, call.env)

\* C23: caching failures are never fatal to the primary computation: in a
\* cached detect call a cache read failure is treated as a miss and a cache
\* write failure as a no-op, so whenever the underlying detector succeeds the
\* call returns the detector's result, whatever the cache get or set does.
C23_CacheFailuresNotFatal ==
    calls # <<>> =>
        LET call == calls[Len(calls)] IN
        (/\ call.io.get = "fails" \/ call.io.set = "fails"
         /\ ~call.hit
         /\ Detection(call).out.kind = "ok")
            => call.out = Detection(call).out

\* C24: for any sequence of cached detect calls on (video, method): a call
\* that finds a non-expired entry returns the cached intervals without
\* invoking the detector; a call that misses invokes the detection for the
\* requested method exactly once, returns its result and stores it under the
\* key of (video, method), so that the next call within the TTL for the same
\* (video, method) is a hit; entries for different methods or videos are
\* independent (they have different keys and files).
C24_HitSkipsMissComputesAndStores ==
    calls # <<>> =>
        LET call == calls[Len(calls)] IN
        /\ call.key = MakeCacheKey(call.video_path, MethodKey(call.method))
        /\ \A j \in DOMAIN calls :
              <<call.video_path, call.method>> # <<calls[j].video_path, calls[j].method>>
                  => GetCacheFile(call.key) # GetCacheFile(calls[j].key)
        /\ call.hit =>
              /\ call.log = <<>>
              /\ call.next.hit
              /\ call.out = Ok(call.next.value)
        /\ (~call.hit /\ Detection(call).out.kind = "ok") =>
              /\ call.out = Detection(call).out
              /\ call.log = Detection(call).log
              /\ (use_cache /\ config.enabled /\ call.io.set = "ok") =>
                    call.next = Hit(call.out.scenes)

(***************************************************************************)
(* Two threads on one cache directory: properties                          *)
(***************************************************************************)
\* what the detection for the requested method gives thread t
ThreadDetection(t) == DetectScenes(RaceMethod, threads[t].env)

\* both threads made a cached detect call that found no entry, and both
\* calls are over
BothDetected ==
    \A t \in Threads :
        /\ threads[t].op = "detect"
        /\ threads[t].pc = "done"
        /\ ~threads[t].result.hit
        /\ ~threads[t].expired

\* C25: when two cached detect calls for the same subject and method run
\* concurrently on an empty cache, both may compute and write; each caller
\* gets its own computed result, and once both have finished the entry for
\* the key is a complete payload equal to the result of the write that
\* finished last, never a mixture of the two writes or an unreadable entry.
C25_ConcurrentDetectsLastWriteWins ==
    (/\ BothDetected
     /\ use_cache
     /\ config.enabled
     /\ \A t \in Threads : ThreadDetection(t).out.kind = "ok")
        => /\ \A t \in Threads : threads[t].out = ThreadDetection(t).out
           /\ files[RaceFile].exists
           /\ RaceFile \notin unreadable
           /\ files[RaceFile].value = threads[finished[Len(finished)]].out.scenes

\* C29: under any interleaving of a get(k) that finds k's entry expired with
\* a concurrent set(k, v), the get never deletes the freshly written entry:
\* once both operations have completed, the entry written by set is present
\* (and readable, so that a get(k) before its TTL returns v).
C29_GetNeverDeletesFreshEntry ==
    \A g, w \in Threads :
        (/\ threads[g].op = "get" /\ threads[g].pc = "done" /\ threads[g].expired
         /\ threads[w].op = "set" /\ threads[w].pc = "done"
         /\ config.enabled
         /\ now - threads[w].timestamp <= config.ttl_seconds)
            => /\ files[RaceFile] = Entry(threads[w].value, threads[w].timestamp,
                                          config.ttl_seconds)
               /\ RaceFile \notin unreadable

(***************************************************************************)
(* detect_visual_duplicates: properties                                    *)
(***************************************************************************)
\* C26: in a visual-duplicate detection call with a database and episode id,
\* the episode's new fingerprints are handed to the fingerprint store before
\* any similarity query is issued, and every similarity query of that call
\* carries exclude_episode_id equal to the episode being analysed.
C26_StoreBeforeQueriesExcludingSelf ==
    \A i \in DOMAIN repo_calls :
        repo_calls[i].call = "find_similar_hashes" =>
            /\ repo_calls[i].exclude_episode_id = episode.id
            /\ repo_calls[1] = AddHashesBatch(episode.id, hashes)
            /\ i > 1

\* a call that stored two hashes and then issued a query for each
C26_Witness ==
    /\ fpc = "done"
    /\ episode.db
    /\ episode.id = SourceEpisode
    /\ Len(hashes) = 2
    /\ Len(repo_calls) = 3
    /\ repo_calls[3] = FindSimilarHashes(hashes[2][2], SourceEpisode)

====
